---- MODULE Spec2Model ----
(***************************************************************************)
(* SilverForge: the heading normalizer (core.refine_headings) and the      *)
(* curator: evaluate_structure, evaluate_semantic, evaluate_text_quality   *)
(* and curate, with the language model and the text-comparison package as  *)
(* collaborators that may answer anything or fail; parse_pdf with the      *)
(* document-parse service behind it; and the job store of the web API    *)
(* with its background tasks.  A last part runs two callers of the         *)
(* normalizer and the evaluators side by side.                             *)
(*                                                                         *)
(* A Python str is a sequence of one-character strings; Chars turns a      *)
(* TLA+ string literal into that form.                                     *)
(***************************************************************************)
EXTENDS Integers, Sequences, FiniteSets, TLC

VARIABLES
    markdown,       \* refine_headings: the argument of the current call
    lines,          \* refine_headings: markdown.split("\n")
    idx,            \* refine_headings: number of lines the for loop has consumed
    refined_lines,  \* refine_headings: the output lines so far
    title_found,    \* refine_headings: the title flag
    levels,         \* refine_headings: new_level of each consumed line (0: not rewritten)
    pc,             \* refine_headings: "call", "loop" or "done"
    result,         \* refine_headings: the returned string
    runs,           \* caller: how many times refine_headings has been called
    first_result,   \* caller: what the first call returned
    silver_md,      \* evaluate_structure, evaluate_semantic, evaluate_text_quality, curate: the document
    report,         \* evaluate_structure: the returned dict (NoReport before the call)
    caller,         \* "direct", or "curate" when the evaluators run inside curate
    api_key,        \* UPSTAGE_API_KEY is set (core and curator read the same variable)
    max_chars,      \* evaluate_semantic: the argument
    llm_calls,      \* evaluate_semantic: number of llm.invoke calls made (line 222)
    truncated_md,   \* evaluate_semantic: the document text placed in the prompt
    response,       \* evaluate_semantic: what llm.invoke did (NoResponse before it)
    semantic,       \* evaluate_semantic: the returned dict (NoReport before the return)
    original_text,  \* evaluate_text_quality, curate: the reference text (None, or a string)
    jiwer,          \* what the text-comparison package does when it is used
    text_quality,   \* evaluate_text_quality: the returned dict (NoReport before the return)
    curation,       \* curate: the returned dict (NoReport before the return)
    pdf_file,       \* parse_pdf: what is at pdf_path ("missing", "file" or "directory")
    file_looks,     \* parse_pdf: number of pdf_path.exists() calls made (line 38)
    http_requests,  \* parse_pdf: number of requests.post calls made (line 53)
    http,           \* parse_pdf: what requests.post did (NoHttp before it)
    pdf_result,     \* parse_pdf: the returned markdown or the raised error (NoResult before)
    jobs,           \* api: the dict jobs, job id -> JobResult
    files,          \* api: the job ids whose temp file (_temp_path) exists
    issued,         \* api: number of job ids issued so far
    tasks,          \* api: the background tasks made by asyncio.create_task, in order
    frames          \* side by side: each caller's current call and its locals

vars == <<markdown, lines, idx, refined_lines, title_found, levels, pc, result,
          runs, first_result, silver_md, report, caller, api_key, max_chars,
          llm_calls, truncated_md, response, semantic, original_text, jiwer,
          text_quality, curation, pdf_file, file_looks, http_requests, http,
          pdf_result, jobs, files, issued, tasks, frames>>

pdfVars == <<pdf_file, file_looks, http_requests, http, pdf_result>>

jobVars == <<jobs, files, issued, tasks>>

pairVars == <<frames>>

serviceVars == <<pdfVars, jobVars, pairVars>>

curateVars == <<caller, api_key, max_chars, llm_calls, truncated_md, response,
                semantic, original_text, jiwer, text_quality, curation>>

refineVars == <<markdown, lines, idx, refined_lines, title_found, levels,
                     result, runs, first_result>>

nonPairVars == <<pc, refineVars, silver_md, report, curateVars, pdfVars, jobVars>>

--------------------------------------------------------------------------
(* Bounds of the model *)

\* longest document enumerated character by character
MaxDocLen == 4

\* most lines in a document built from the sample lines
MaxSampleLines == 4

\* longest document given to evaluate_semantic and evaluate_text_quality
MaxShortDocLen == 3

\* most jobs ever uploaded
MaxJobs == 2

\* most background tasks ever made
MaxTasks == 2

\* most calls one of the callers side by side makes
MaxCalls == 2

--------------------------------------------------------------------------
(* Python str primitives *)

Chars(str) == [i \in 1..Len(str) |-> SubSeq(str, i, i)]

NL == "\n"

\* str.isspace / the regex class \s, on the characters the model uses
Whitespace == {" ", "\t", "\n"}

\* the regex class \d
Digits == {"0", "1", "2", "3", "4", "5", "6", "7", "8", "9"}

UpperCase == Chars("ABCDEFGHIJKLMNOPQRSTUVWXYZ")

LowerCase == Chars("abcdefghijklmnopqrstuvwxyz")

LowerChar(c) ==
    IF \E i \in 1..Len(UpperCase) : UpperCase[i] = c
    THEN LowerCase[CHOOSE i \in 1..Len(UpperCase) : UpperCase[i] = c]
    ELSE c

\* str.lower()
Lower(s) == [i \in 1..Len(s) |-> LowerChar(s[i])]

\* str.strip()
Strip(s) ==
    LET keep == {i \in 1..Len(s) : s[i] \notin Whitespace}
    IN  IF keep = {} THEN <<>>
        ELSE LET lo == CHOOSE i \in keep : \A j \in keep : i <= j
                 hi == CHOOSE i \in keep : \A j \in keep : j <= i
             IN  SubSeq(s, lo, hi)

\* str.split("\n"): always at least one line
Split(s) ==
    LET seps   == {i \in 1..Len(s) : s[i] = NL}
        n      == Cardinality(seps)
        sep(k) == CHOOSE i \in seps : Cardinality({j \in seps : j < i}) = k - 1
    IN  [k \in 1..(n + 1) |->
            SubSeq(s, IF k = 1 THEN 1 ELSE sep(k - 1) + 1,
                      IF k = n + 1 THEN Len(s) ELSE sep(k) - 1)]

\* "\n".join(ls)
Join(ls) ==
    LET F[i \in 0..Len(ls)] ==
            IF i = 0 THEN <<>>
            ELSE IF i = 1 THEN ls[1]
            ELSE F[i - 1] \o <<NL>> \o ls[i]
    IN  F[Len(ls)]

\* str.startswith(c) for a one-character c
StartsWith(s, c) == Len(s) >= 1 /\ s[1] = c

\* str.count(c) for a one-character c
Count(s, c) == Cardinality({i \in 1..Len(s) : s[i] = c})

\* '#' * n
Hashes(n) == [i \in 1..n |-> "#"]

\* length of the run of characters of class cls that starts at position i
RunLen(s, i, cls) ==
    LET stop == {j \in i..Len(s) : s[j] \notin cls}
    IN  IF stop = {} THEN (IF i > Len(s) THEN 0 ELSE Len(s) - i + 1)
        ELSE (CHOOSE j \in stop : \A k \in stop : j <= k) - i

--------------------------------------------------------------------------
(* core.refine_headings and core._detect_heading_level *)

\* the regex ^\d+\.\d+\.\d+ at the start of s
MatchXYZ(s) ==
    LET a == RunLen(s, 1, Digits)
    IN  /\ a >= 1
        /\ Len(s) >= a + 1
        /\ s[a + 1] = "."
        /\ LET b == RunLen(s, a + 2, Digits)
           IN  /\ b >= 1
               /\ Len(s) >= a + b + 2
               /\ s[a + b + 2] = "."
               /\ RunLen(s, a + b + 3, Digits) >= 1

\* the regex ^\d+\.\d+ at the start of s
MatchXY(s) ==
    LET a == RunLen(s, 1, Digits)
    IN  /\ a >= 1
        /\ Len(s) >= a + 1
        /\ s[a + 1] = "."
        /\ RunLen(s, a + 2, Digits) >= 1

\* the regex ^\d+\.?\s at the start of s
MatchX(s) ==
    LET a == RunLen(s, 1, Digits)
    IN  /\ a >= 1
        /\ Len(s) >= a + 1
        /\ \/ s[a + 1] \in Whitespace
           \/ /\ s[a + 1] = "."
              /\ Len(s) >= a + 2
              /\ s[a + 2] \in Whitespace

special_h2 ==
    { Chars("abstract"), Chars("introduction"), Chars("conclusion"),
      Chars("references"), Chars("acknowledgments"), Chars("acknowledgements"),
      Chars("appendix"), Chars("related work"), Chars("background"),
      Chars("methodology"), Chars("methods"), Chars("results"),
      Chars("discussion"), Chars("experiments"), Chars("evaluation") }

\* a slip in the rule order: X.Y is tried before X.Y.Z
detect_heading_level_XYFirst(content, tf) ==
    LET content_stripped == Strip(content)
    IN  IF MatchXY(content_stripped) THEN 3
        ELSE IF MatchXYZ(content_stripped) THEN 4
        ELSE IF MatchX(content_stripped) THEN 2
        ELSE IF Lower(content_stripped) \in special_h2 THEN 2
        ELSE IF ~tf THEN 1
        ELSE 2

detect_heading_level(content, tf) ==
    LET content_stripped == Strip(content)
    IN  IF MatchXYZ(content_stripped) THEN 4
        ELSE IF MatchXY(content_stripped) THEN 3
        ELSE IF MatchX(content_stripped) THEN 2
        ELSE IF Lower(content_stripped) \in special_h2 THEN 2
        ELSE IF ~tf THEN 1
        ELSE 2

\* the marker accepts one '#' only: ^(#)\s*(.+)$
HeadingSplits_SingleHash(line) ==
    {p \in {1} \X (0..Len(line)) :
        /\ p[1] + p[2] < Len(line)
        /\ \A i \in 1..p[1] : line[i] = "#"
        /\ \A i \in (p[1] + 1)..(p[1] + p[2]) : line[i] \in Whitespace
        /\ \A i \in (p[1] + p[2] + 1)..Len(line) : line[i] # NL}

\* the ways ^(#+)\s*(.+)$ can match line: <<h, w>> with h marker characters
\* in group 1, w characters in \s*, and the non-empty rest in group 2
HeadingSplits(line) ==
    {p \in (1..Len(line)) \X (0..Len(line)) :
        /\ p[1] + p[2] < Len(line)
        /\ \A i \in 1..p[1] : line[i] = "#"
        /\ \A i \in (p[1] + 1)..(p[1] + p[2]) : line[i] \in Whitespace
        /\ \A i \in (p[1] + p[2] + 1)..Len(line) : line[i] # NL}

NoMatch == [matched |-> FALSE]

\* re.match(r"^(#+)\s*(.+)$", line): both quantifiers are greedy, so the
\* match found first has the longest marker and then the longest \s* run
HeadingMatch(line) ==
    LET S == HeadingSplits(line)
    IN  IF S = {} THEN NoMatch
        ELSE LET h == CHOOSE x \in {p[1] : p \in S} : \A q \in S : q[1] <= x
                 w == CHOOSE x \in {p[2] : p \in {q \in S : q[1] = h}} :
                          \A q \in S : q[1] = h => q[2] <= x
             IN  [matched |-> TRUE,
                  group1  |-> SubSeq(line, 1, h),
                  group2  |-> SubSeq(line, h + w + 1, Len(line))]

\* the title flag is never set
RefineLine_NoTitleFlag(line, tf) ==
    IF StartsWith(line, "#") /\ HeadingMatch(line).matched
    THEN LET content   == Strip(HeadingMatch(line).group2)
             new_level == detect_heading_level(content, tf)
         IN  [out         |-> Hashes(new_level) \o <<" ">> \o content,
              title_found |-> tf,
              new_level   |-> new_level]
    ELSE [out |-> line, title_found |-> tf, new_level |-> 0]

\* every line is stripped, heading or not
RefineLine_StripAll(line, tf) ==
    IF StartsWith(line, "#") /\ HeadingMatch(line).matched
    THEN LET content   == Strip(HeadingMatch(line).group2)
             new_level == detect_heading_level(content, tf)
         IN  [out         |-> Hashes(new_level) \o <<" ">> \o content,
              title_found |-> tf \/ new_level = 1,
              new_level   |-> new_level]
    ELSE [out |-> Strip(line), title_found |-> tf, new_level |-> 0]

\* the heading text is not stripped
RefineLine_NoStrip(line, tf) ==
    IF StartsWith(line, "#") /\ HeadingMatch(line).matched
    THEN LET content   == HeadingMatch(line).group2
             new_level == detect_heading_level(content, tf)
         IN  [out         |-> Hashes(new_level) \o <<" ">> \o content,
              title_found |-> tf \/ new_level = 1,
              new_level   |-> new_level]
    ELSE [out |-> line, title_found |-> tf, new_level |-> 0]

\* the body of the for loop: the line appended to refined_lines, the title
\* flag after it, and new_level (0 when the line is appended as it is)
RefineLine(line, tf) ==
    IF StartsWith(line, "#") /\ HeadingMatch(line).matched
    THEN LET content   == Strip(HeadingMatch(line).group2)
             new_level == detect_heading_level(content, tf)
         IN  [out         |-> Hashes(new_level) \o <<" ">> \o content,
              title_found |-> tf \/ new_level = 1,
              new_level   |-> new_level]
    ELSE [out |-> line, title_found |-> tf, new_level |-> 0]

\* the whole function
refine_headings(md) ==
    LET ls == Split(md)
        F[i \in 0..Len(ls)] ==
            IF i = 0 THEN [out |-> <<>>, tf |-> FALSE]
            ELSE LET prev == F[i - 1]
                     r    == RefineLine(ls[i], prev.tf)
                 IN  [out |-> Append(prev.out, r.out), tf |-> r.title_found]
    IN  Join(F[Len(ls)].out)

\* a mutation: the flag of the previous call is kept
TitleFoundAtCall_Carried(carried) == carried

\* title_found = False, whatever an earlier call left
TitleFoundAtCall(carried) == FALSE

\* lines = markdown.split("\n"); refined_lines = []; title_found = False
RefineCall ==
    /\ pc = "call"
    /\ lines' = Split(markdown)
    /\ refined_lines' = <<>>
    /\ title_found' = TitleFoundAtCall(title_found)
    /\ levels' = <<>>
    /\ idx' = 0
    /\ pc' = "loop"
    /\ UNCHANGED <<markdown, result, runs, first_result, silver_md, report>>
    /\ UNCHANGED <<curateVars, serviceVars>>

\* one iteration of the for loop
RefineStep ==
    /\ pc = "loop"
    /\ idx < Len(lines)
    /\ LET r == RefineLine(lines[idx + 1], title_found)
       IN  /\ refined_lines' = Append(refined_lines, r.out)
           /\ title_found' = r.title_found
           /\ levels' = Append(levels, r.new_level)
    /\ idx' = idx + 1
    /\ UNCHANGED <<markdown, lines, pc, result, runs, first_result, silver_md, report>>
    /\ UNCHANGED <<curateVars, serviceVars>>

\* return "\n".join(refined_lines)
RefineReturn ==
    /\ pc = "loop"
    /\ idx = Len(lines)
    /\ result' = Join(refined_lines)
    /\ pc' = "done"
    /\ UNCHANGED <<markdown, lines, idx, refined_lines, title_found, levels, runs,
                   first_result, silver_md, report>>
    /\ UNCHANGED <<curateVars, serviceVars>>

\* the caller normalizes the output of the first call once more
RefineAgain ==
    /\ pc = "done"
    /\ runs = 1
    /\ first_result' = result
    /\ markdown' = result
    /\ runs' = 2
    /\ pc' = "call"
    /\ UNCHANGED <<lines, idx, refined_lines, title_found, levels, result,
                   silver_md, report>>
    /\ UNCHANGED <<curateVars, serviceVars>>

--------------------------------------------------------------------------
(* curator.evaluate_structure *)

NoReport == [called |-> FALSE]

\* the heading loop: the levels (1..4) of the lines that start with '#', in
\* document order; a marker of five or more characters is not counted
HeadingLevels(ls) ==
    LET F[i \in 0..Len(ls)] ==
            IF i = 0 THEN <<>>
            ELSE IF StartsWith(ls[i], "#") /\ RunLen(ls[i], 1, {"#"}) <= 4
                 THEN Append(F[i - 1], RunLen(ls[i], 1, {"#"}))
                 ELSE F[i - 1]
    IN  F[Len(ls)]

HeadingCount(hl) ==
    [h1 |-> Cardinality({i \in 1..Len(hl) : hl[i] = 1}),
     h2 |-> Cardinality({i \in 1..Len(hl) : hl[i] = 2}),
     h3 |-> Cardinality({i \in 1..Len(hl) : hl[i] = 3}),
     h4 |-> Cardinality({i \in 1..Len(hl) : hl[i] = 4})]

\* a jump in either direction is flagged
HeadingOrder_AnyJump(hl) ==
    LET bad == {i \in 2..Len(hl) : hl[i] > hl[i - 1] + 1 \/ hl[i - 1] > hl[i] + 1}
    IN  IF bad = {} THEN [valid |-> TRUE, issues |-> <<>>]
        ELSE LET i == CHOOSE x \in bad : \A y \in bad : x <= y
             IN  [valid  |-> FALSE,
                  issues |-> <<[kind |-> "heading_jump", from |-> hl[i - 1], to |-> hl[i]]>>]

\* the loop does not break: every jump is recorded
HeadingOrder_NoBreak(hl) ==
    LET bad == {i \in 2..Len(hl) : hl[i] > hl[i - 1] + 1}
        F[i \in 1..Len(hl)] ==
            IF i = 1 THEN <<>>
            ELSE LET prev == F[i - 1]
                 IN  IF i \in bad
                     THEN Append(prev, [kind |-> "heading_jump", from |-> hl[i - 1], to |-> hl[i]])
                     ELSE prev
    IN  [valid |-> bad = {}, issues |-> IF hl = <<>> THEN <<>> ELSE F[Len(hl)]]

\* the heading order loop, which breaks at the first jump
HeadingOrder(hl) ==
    LET bad == {i \in 2..Len(hl) : hl[i] > hl[i - 1] + 1}
    IN  IF bad = {} THEN [valid |-> TRUE, issues |-> <<>>]
        ELSE LET i == CHOOSE x \in bad : \A y \in bad : x <= y
             IN  [valid  |-> FALSE,
                  issues |-> <<[kind |-> "heading_jump", from |-> hl[i - 1], to |-> hl[i]]>>]

\* l.strip().startswith("|")
IsTableLine(l) == StartsWith(Strip(l), "|")

\* table_lines = [l for l in lines if l.strip().startswith("|")]
TableLines(ls) ==
    LET F[i \in 0..Len(ls)] ==
            IF i = 0 THEN <<>>
            ELSE IF IsTableLine(ls[i]) THEN Append(F[i - 1], ls[i])
            ELSE F[i - 1]
    IN  F[Len(ls)]

\* in_table is never reset
TableCount_NoReset(ls) ==
    LET F[i \in 0..Len(ls)] ==
            IF i = 0 THEN [table_count |-> 0, in_table |-> FALSE]
            ELSE LET prev == F[i - 1]
                 IN  IF IsTableLine(ls[i])
                     THEN IF ~prev.in_table
                          THEN [table_count |-> prev.table_count + 1, in_table |-> TRUE]
                          ELSE prev
                     ELSE prev
    IN  F[Len(ls)].table_count

\* the table group loop
TableCount(ls) ==
    LET F[i \in 0..Len(ls)] ==
            IF i = 0 THEN [table_count |-> 0, in_table |-> FALSE]
            ELSE LET prev == F[i - 1]
                 IN  IF IsTableLine(ls[i])
                     THEN IF ~prev.in_table
                          THEN [table_count |-> prev.table_count + 1, in_table |-> TRUE]
                          ELSE prev
                     ELSE [prev EXCEPT !.in_table = FALSE]
    IN  F[Len(ls)].table_count

\* re.match(r"^\|[\s\-:|]+\|$", line.strip())
IsSeparator(l) ==
    LET s == Strip(l)
    IN  /\ Len(s) >= 3
        /\ s[1] = "|"
        /\ s[Len(s)] = "|"
        /\ \A i \in 2..(Len(s) - 1) : s[i] \in Whitespace \cup {"-", ":", "|"}

\* a mutation: separator lines are not exempt
TableMismatch_NoExemption(l, current_table_cols) ==
    Count(l, "|") # current_table_cols

\* the condition under which a table line ends the check
TableMismatch(l, current_table_cols) ==
    /\ Count(l, "|") # current_table_cols
    /\ Strip(l) # Chars("|---|")
    /\ ~IsSeparator(l)

\* each line is compared with the line before it
TableCheck_Previous(tl) ==
    LET bad == {i \in 2..Len(tl) : TableMismatch(tl[i], Count(tl[i - 1], "|"))}
    IN  IF bad = {} THEN [valid |-> TRUE, issues |-> <<>>]
        ELSE LET i == CHOOSE x \in bad : \A y \in bad : x <= y
             IN  [valid  |-> FALSE,
                  issues |-> <<[kind |-> "table_cols",
                                expected |-> Count(tl[i - 1], "|"),
                                got |-> Count(tl[i], "|")]>>]

\* the table structure loop: current_table_cols is set by the first table
\* line and never again; the loop breaks at the first mismatch
TableCheck(tl) ==
    LET bad == {i \in 2..Len(tl) : TableMismatch(tl[i], Count(tl[1], "|"))}
    IN  IF bad = {} THEN [valid |-> TRUE, issues |-> <<>>]
        ELSE LET i == CHOOSE x \in bad : \A y \in bad : x <= y
             IN  [valid  |-> FALSE,
                  issues |-> <<[kind |-> "table_cols",
                                expected |-> Count(tl[1], "|"),
                                got |-> Count(tl[i], "|")]>>]

\* overlapping occurrences are counted
EquationMatches_Overlapping(s) ==
    Cardinality({i \in 1..(Len(s) - 1) : s[i] = "$" /\ s[i + 1] = "$"})

\* len(re.findall(r"\$\$", silver_md)): matches do not overlap
\* (left to right, a match starts at an even offset into a run of '$')
EquationMatches(s) ==
    LET before(i) == i - 1 - (CHOOSE j \in 0..(i - 1) :
                                 /\ j = 0 \/ s[j] # "$"
                                 /\ \A k \in (j + 1)..(i - 1) : s[k] = "$")
    IN  Cardinality({i \in 1..(Len(s) - 1) :
            s[i] = "$" /\ s[i + 1] = "$" /\ before(i) % 2 = 0})

evaluate_structure(md) ==
    LET ls             == Split(md)
        heading_levels == HeadingLevels(ls)
        order          == HeadingOrder(heading_levels)
        table_lines    == TableLines(ls)
        table          == IF table_lines # <<>> THEN TableCheck(table_lines)
                          ELSE [valid |-> TRUE, issues |-> <<>>]
        n              == EquationMatches(md)
        equation_valid == n % 2 = 0
    IN  [called              |-> TRUE,
         heading_count       |-> HeadingCount(heading_levels),
         heading_order_valid |-> order.valid,
         table_count         |-> IF table_lines # <<>> THEN TableCount(ls) ELSE 0,
         table_valid         |-> table.valid,
         equation_count      |-> n \div 2,
         equation_valid      |-> equation_valid,
         issues              |-> order.issues \o table.issues \o
                                 (IF equation_valid THEN <<>>
                                  ELSE <<[kind |-> "equation_unpaired"]>>),
         pass                |-> order.valid /\ table.valid /\ equation_valid]

\* report = evaluate_structure(silver_md)
\* (in curate: structure_quality = evaluate_structure(silver_md), and
\* evaluate_semantic is called next)
EvaluateStructure ==
    /\ pc = "structure"
    /\ report' = evaluate_structure(silver_md)
    /\ pc' = IF caller = "curate" THEN "sem_call" ELSE "reported"
    /\ UNCHANGED <<refineVars, silver_md, curateVars, serviceVars>>

--------------------------------------------------------------------------
(* curator.evaluate_semantic                                              *)
(*                                                                        *)
(* The text of a language-model response is a sequence whose elements are *)
(* its lexemes: a whitespace character, a code fence, a JSON punctuation  *)
(* mark, a number, a quoted string, or a word.  The str operations above  *)
(* (Strip, Split, Join, StartsWith) act on it as they act on characters.  *)
(* JSON values are tagged records; a JSON object, like a Python dict, is  *)
(* a function from its keys to values.                                    *)

JInt(n) == [t |-> "int", int |-> n]
JStr(s) == [t |-> "str", str |-> s]
JBool(b) == [t |-> "bool", bool |-> b]
JNull == [t |-> "null"]
JList(l) == [t |-> "list", list |-> l]
JDict(d) == [t |-> "dict", dict |-> d]

\* the dict with no keys
EmptyDict == [k \in {} |-> JNull]

\* d[key] = val
DictPut(d, key, val) ==
    [k \in DOMAIN d \cup {key} |-> IF k = key THEN val ELSE d[k]]

\* d.get(key, default)
DictGet(d, key, default) == IF key \in DOMAIN d THEN d[key] ELSE default

\* a quoted string lexeme, and the string it denotes
IsStringTok(a) ==
    /\ Len(a) >= 2
    /\ SubSeq(a, 1, 1) = "\""
    /\ SubSeq(a, Len(a), Len(a)) = "\""

Unquote(a) == SubSeq(a, 2, Len(a) - 1)

\* a JSON integer lexeme: an optional '-', then digits without a leading zero
IsIntTok(a) ==
    LET c == Chars(a)
        d == IF c # <<>> /\ c[1] = "-" THEN Tail(c) ELSE c
    IN  /\ d # <<>>
        /\ \A i \in 1..Len(d) : d[i] \in Digits
        /\ Len(d) = 1 \/ d[1] # "0"

DigitValue(ch) == CHOOSE n \in 0..9 : SubSeq("0123456789", n + 1, n + 1) = ch

IntValue(a) ==
    LET c == Chars(a)
        neg == c[1] = "-"
        d == IF neg THEN Tail(c) ELSE c
        val[i \in 0..Len(d)] ==
            IF i = 0 THEN 0 ELSE val[i - 1] * 10 + DigitValue(d[i])
    IN  IF neg THEN 0 - val[Len(d)] ELSE val[Len(d)]

Undecodable == [t |-> "undecodable"]

\* the value of a one-lexeme JSON text
Scalar(a) ==
    IF IsStringTok(a) THEN JStr(Unquote(a))
    ELSE IF IsIntTok(a) THEN JInt(IntValue(a))
    ELSE IF a = "true" THEN JBool(TRUE)
    ELSE IF a = "false" THEN JBool(FALSE)
    ELSE IF a = "null" THEN JNull
    ELSE Undecodable

ParseFail == [ok |-> FALSE, val |-> Undecodable, next |-> 0]

\* the JSON value that starts at lexeme i of T: a scalar or a list of scalars
ParseValueAt(T, i) ==
    IF i > Len(T) THEN ParseFail
    ELSE IF T[i] = "["
    THEN LET closes == { j \in (i + 1)..Len(T) : T[j] = "]" }
         IN  IF closes = {} THEN ParseFail
             ELSE LET j == CHOOSE c \in closes : \A o \in closes : c <= o
                      inner == SubSeq(T, i + 1, j - 1)
                      n == Len(inner)
                      wellformed ==
                          \/ n = 0
                          \/ /\ n % 2 = 1
                             /\ \A k \in 1..n :
                                    IF k % 2 = 1
                                    THEN Scalar(inner[k]) # Undecodable
                                    ELSE inner[k] = ","
                  IN  IF wellformed
                      THEN [ok |-> TRUE,
                            val |-> JList([k \in 1..((n + 1) \div 2) |->
                                              Scalar(inner[2 * k - 1])]),
                            next |-> j + 1]
                      ELSE ParseFail
    ELSE IF Scalar(T[i]) # Undecodable
    THEN [ok |-> TRUE, val |-> Scalar(T[i]), next |-> i + 1]
    ELSE ParseFail

\* the members of a JSON object from lexeme i (a key) to the closing brace;
\* a repeated key keeps its last value
RECURSIVE ParseMembers(_, _, _)
ParseMembers(T, i, acc) ==
    IF i + 2 > Len(T) \/ ~IsStringTok(T[i]) \/ T[i + 1] # ":" THEN ParseFail
    ELSE LET v == ParseValueAt(T, i + 2)
         IN  IF ~v.ok \/ v.next > Len(T) THEN ParseFail
             ELSE LET acc2 == DictPut(acc, Unquote(T[i]), v.val)
                  IN  IF T[v.next] = "}"
                      THEN [ok |-> TRUE, val |-> JDict(acc2), next |-> v.next + 1]
                      ELSE IF T[v.next] = ","
                      THEN ParseMembers(T, v.next + 1, acc2)
                      ELSE ParseFail

\* json.loads(content): ok is FALSE where it raises JSONDecodeError
json_loads(content) ==
    LET T == SelectSeq(content, LAMBDA a : a \notin Whitespace)
        r == IF T = <<>> THEN ParseFail
             ELSE IF T[1] = "{"
             THEN IF Len(T) >= 2 /\ T[2] = "}"
                  THEN [ok |-> TRUE, val |-> JDict(EmptyDict), next |-> 3]
                  ELSE ParseMembers(T, 2, EmptyDict)
             ELSE ParseValueAt(T, 1)
    IN  IF r.ok /\ r.next = Len(T) + 1 THEN r ELSE ParseFail

\* the three backquotes of a code fence, one lexeme
Fence == "<fence>"

\* lines 225-232: drop the first line if the text starts with a fence, then
\* the last line if that line starts with a fence
StripFence(content) ==
    IF StartsWith(content, Fence)
    THEN LET all == Split(content)
             lines1 == IF StartsWith(all[1], Fence) THEN Tail(all) ELSE all
             lines2 == IF lines1 # <<>> /\ StartsWith(lines1[Len(lines1)], Fence)
                       THEN SubSeq(lines1, 1, Len(lines1) - 1)
                       ELSE lines1
         IN  Join(lines2)
    ELSE content

\* a mutation: the text is parsed as it came, fences and all
StripFence_Keep(content) == content

\* the report of lines 181-190, 241-249 and 251-259: every score 0, one issue
ZeroReport(issue, recommendation) ==
    [structure_score |-> JInt(0), completeness_score |-> JInt(0),
     coherence_score |-> JInt(0), overall_score |-> JInt(0),
     issues |-> JList(<<JStr(issue)>>),
     recommendation |-> JStr(recommendation), pass |-> JBool(FALSE)]

\* line 187
NoKeyIssue == "UPSTAGE_API_KEY not configured"

\* line 188 (Korean in the source: the API key has to be set)
NoKeyRecommendation == "API KEY setting required"

\* line 246 (Korean in the source: parsing the LLM response failed)
ParseFailureIssue == "LLM response parse failure"

\* lines 247 and 257 (Korean in the source: manual review needed)
ManualReview == "manual review needed"

\* line 256, f"...: {str(e)}" (the prefix is Korean in the source: error
\* during evaluation)
ErrorIssue(text) == "error during evaluation: " \o text

NoKeyReport == ZeroReport(NoKeyIssue, NoKeyRecommendation)

\* the text of a response, kept whole
JText(s) == [t |-> "text", text |-> s]

\* lines 241-249; raw_response is response.content, or None when llm.invoke
\* raised before response was bound
ParseFailureReport(raw) ==
    DictPut(ZeroReport(ParseFailureIssue, ManualReview), "raw_response", raw)

\* a mutation: the text of the error is left out
ErrorReport_NoText(text) == ZeroReport(ErrorIssue(""), ManualReview)

\* lines 251-259
ErrorReport(text) == ZeroReport(ErrorIssue(text), ManualReview)

\* type(v).__name__
TypeName(v) ==
    IF v.t = "null" THEN "NoneType" ELSE v.t

\* the number Python compares a bool or an int as
AsInt(v) == IF v.t = "bool" THEN (IF v.bool THEN 1 ELSE 0) ELSE v.int

PassThreshold == 70

\* a mutation: a lower threshold
PassFlag_Lenient(score) == score >= PassThreshold - 30

\* line 236: overall_score >= 70
PassFlag(score) == score >= PassThreshold

\* a mutation: a "pass" the response carries is kept
ScoreParsed_KeepPass(v) ==
    IF v.t # "dict"
    THEN ErrorReport(TypeName(v) \o " object has no attribute get")
    ELSE LET score == DictGet(v.dict, "overall_score", JInt(0))
         IN  IF score.t \notin {"int", "bool"}
             THEN ErrorReport(">= not supported between instances of "
                              \o TypeName(score) \o " and int")
             ELSE IF "pass" \in DOMAIN v.dict THEN v.dict
                  ELSE DictPut(v.dict, "pass", JBool(PassFlag(AsInt(score))))

\* lines 235-237 on the parsed value: .get on a value that is not a dict
\* raises AttributeError, >= on a score that is not a number raises
\* TypeError; both are caught at line 251 (the messages without their
\* quotation marks)
ScoreParsed(v) ==
    IF v.t # "dict"
    THEN ErrorReport(TypeName(v) \o " object has no attribute get")
    ELSE LET score == DictGet(v.dict, "overall_score", JInt(0))
         IN  IF score.t \notin {"int", "bool"}
             THEN ErrorReport(">= not supported between instances of "
                              \o TypeName(score) \o " and int")
             ELSE DictPut(v.dict, "pass", JBool(PassFlag(AsInt(score))))

\* lines 221-259 after llm.invoke: what evaluate_semantic returns for what
\* the call did
\* the response is [raised, exception, error, content]: llm.invoke raised
\* exception with str(e) = error, or returned a message with that content
HandleResponse(resp) ==
    IF resp.raised
    THEN IF resp.exception = "JSONDecodeError"
         THEN ParseFailureReport(JNull)
         ELSE ErrorReport(resp.error)
    ELSE LET content == StripFence(Strip(resp.content))
             parsed == json_loads(content)
         IN  IF parsed.ok THEN ScoreParsed(parsed.val)
             ELSE ParseFailureReport(JText(resp.content))

\* what llm.invoke can do: return a message with this content ...
Returned(content) ==
    [raised |-> FALSE, exception |-> "", error |-> "", content |-> content]

\* ... or raise exception e with str(e) = error
Raised(exception, error) ==
    [raised |-> TRUE, exception |-> exception, error |-> error, content |-> <<>>]

Key(name) == "\"" \o name \o "\""

\* {"overall_score": <score>}
ScoreObject(score) == <<"{", Key("overall_score"), ":", " ">> \o score \o <<"}">>

\* the object the prompt asks for, over several lines
FullObject(score) ==
    <<"{", NL,
      " ", Key("structure_score"), ":", " ", "8", ",", NL,
      " ", Key("completeness_score"), ":", " ", "7", ",", NL,
      " ", Key("coherence_score"), ":", " ", "9", ",", NL,
      " ", Key("overall_score"), ":", " ", score, ",", NL,
      " ", Key("issues"), ":", " ", "[", Key("no abstract"), "]", ",", NL,
      " ", Key("recommendation"), ":", " ", Key("usable"), NL,
      "}">>

\* the scores a response may carry
ScoreLexemes ==
    { <<"-50">>, <<"0">>, <<"69">>, <<"70">>, <<"71">>, <<"85">>, <<"100">>,
      <<"150">>, <<Key("80")>>, <<"null">>, <<"true">>, <<"[", "]">> }

ResponseTexts ==
    { ScoreObject(s) : s \in ScoreLexemes }
    \cup
    { FullObject("85"), FullObject("40"),
      \* fenced, the fences on lines of their own
      <<Fence, "json", NL>> \o FullObject("85") \o <<NL, Fence>>,
      <<Fence, NL>> \o ScoreObject(<<"85">>) \o <<NL, Fence, NL>>,
      <<Fence, "json", NL>> \o ScoreObject(<<"40">>) \o <<NL, Fence>>,
      \* an opening fence only
      <<Fence, "json", NL>> \o ScoreObject(<<"85">>),
      \* a fence that shares a line with the object
      <<Fence>> \o ScoreObject(<<"85">>) \o <<Fence>>,
      <<Fence, "json", NL>> \o ScoreObject(<<"85">>) \o <<Fence>>,
      \* words before the fence
      <<"Here", " ", "it", " ", "is", ":", NL, Fence, NL>>
          \o ScoreObject(<<"85">>) \o <<NL, Fence>>,
      \* fences around nothing
      <<Fence>>, <<Fence, NL, Fence>>,
      \* whitespace around the object
      <<NL, " ">> \o ScoreObject(<<"85">>) \o <<" ", NL>>,
      \* an object without a score, and objects that carry their own "pass"
      <<"{", "}">>,
      <<"{", Key("overall_score"), ":", "10", ",", Key("pass"), ":", "true", "}">>,
      <<"{", Key("overall_score"), ":", "90", ",", Key("pass"), ":", "false", "}">>,
      <<"{", Key("pass"), ":", "true", "}">>,
      \* JSON that is not an object
      <<"[", "]">>, <<"[", "85", "]">>, <<"42">>, <<Key("good")>>, <<"null">>, <<"true">>,
      \* not JSON
      <<"The", " ", "document", " ", "is", " ", "fine", ".">>,
      <<"{", Key("overall_score"), ":">>,
      ScoreObject(<<"85">>) \o <<" ", "done">>,
      <<>>, <<" ", NL>> }

LlmOutcomes ==
    { Returned(c) : c \in ResponseTexts }
    \cup { Raised("ConnectionError", "connection refused"),
           Raised("RuntimeError", ""),
           Raised("JSONDecodeError", "Expecting value: line 1 column 1 (char 0)") }

DefaultMaxChars == 3000

\* lines 195 and 197, the notice (Korean in the source: part of the document
\* omitted) being one element
TruncationNotice == <<NL, NL, ".", ".", ".", " ", "(part of the document omitted)">>

\* s[:n]
SliceTo(s, n) ==
    IF n >= 0 THEN SubSeq(s, 1, IF n < Len(s) THEN n ELSE Len(s))
    ELSE SubSeq(s, 1, Len(s) + n)

\* a mutation: a document of exactly n characters gets the notice too
Truncate_AtLimit(s, n) ==
    IF Len(s) >= n THEN SliceTo(s, n) \o TruncationNotice ELSE SliceTo(s, n)

\* lines 195-197
Truncate(s, n) ==
    IF Len(s) > n THEN SliceTo(s, n) \o TruncationNotice ELSE SliceTo(s, n)

\* a mutation: the key is never found missing
NoKey_Never == FALSE

\* line 181: not UPSTAGE_API_KEY
NoKey == ~api_key

\* evaluate_semantic up to llm.invoke (lines 181-219): without a key the
\* report of lines 182-190 is returned at once
EvaluateSemanticCall ==
    /\ pc = "sem_call"
    /\ IF NoKey
       THEN /\ semantic' = NoKeyReport
            /\ pc' = IF caller = "curate" THEN "combine" ELSE "sem_done"
            /\ UNCHANGED truncated_md
       ELSE /\ truncated_md' = Truncate(silver_md, max_chars)
            /\ pc' = "sem_invoke"
            /\ UNCHANGED semantic
    /\ UNCHANGED <<serviceVars, refineVars, silver_md, report, caller, api_key,
                   max_chars,
                   llm_calls, response, original_text, jiwer, text_quality,
                   curation>>

\* line 222: the language model answers, or the call raises
LlmInvoke ==
    /\ pc = "sem_invoke"
    /\ response' \in LlmOutcomes
    /\ llm_calls' = llm_calls + 1
    /\ pc' = "sem_parse"
    /\ UNCHANGED <<serviceVars, refineVars, silver_md, report, caller, api_key,
                   max_chars,
                   truncated_md, semantic, original_text, jiwer, text_quality,
                   curation>>

\* lines 223-259: the response is turned into the returned report
EvaluateSemanticReturn ==
    /\ pc = "sem_parse"
    /\ semantic' = HandleResponse(response)
    /\ pc' = IF caller = "curate" THEN "combine" ELSE "sem_done"
    /\ UNCHANGED <<serviceVars, refineVars, silver_md, report, caller, api_key,
                   max_chars,
                   llm_calls, truncated_md, response, original_text, jiwer,
                   text_quality, curation>>

--------------------------------------------------------------------------
(* curator.evaluate_text_quality *)

\* Optional[str]: None, or a string
None == [given |-> FALSE, text |-> <<>>]

Some(s) == [given |-> TRUE, text |-> s]

\* the truth value of an Optional[str]
Truthy(o) == o.given /\ o.text # <<>>

\* len(s.split()): the number of maximal runs of non-whitespace characters
WordCount(s) ==
    Cardinality({ i \in 1..Len(s) :
                    /\ s[i] \notin Whitespace
                    /\ i = 1 \/ s[i - 1] \in Whitespace })

\* What the jiwer package does when line 50 imports it and lines 52-53 call
\* it: the import fails, a call raises, or both rates come back.  A rate is
\* the fraction num/den.
NotInstalled == [installed |-> FALSE, raised |-> FALSE, cer |-> [num |-> 0, den |-> 1],
                 wer |-> [num |-> 0, den |-> 1]]

JiwerRaised == [installed |-> TRUE, raised |-> TRUE, cer |-> [num |-> 0, den |-> 1],
                wer |-> [num |-> 0, den |-> 1]]

Rates(c, w) == [installed |-> TRUE, raised |-> FALSE, cer |-> c, wer |-> w]

\* the call did not take place
NotUsed == [installed |-> FALSE, raised |-> FALSE, cer |-> [num |-> 0, den |-> 0],
            wer |-> [num |-> 0, den |-> 0]]

Rate(n, d) == [num |-> n, den |-> d]

\* rates below, at and above 0.15
SampleRates == { Rate(0, 1), Rate(1, 10), Rate(149, 1000), Rate(3, 20),
                 Rate(151, 1000), Rate(2, 1) }

JiwerOutcomes ==
    { NotInstalled, JiwerRaised }
        \cup { Rates(c, w) : c \in SampleRates, w \in { Rate(0, 1), Rate(1, 2) } }

\* a mutation: a rate of exactly 0.15 passes
BelowThreshold_Inclusive(rate) == rate.num * 100 <= 15 * rate.den

\* line 55: rate < 0.15
BelowThreshold(rate) == rate.num * 100 < 15 * rate.den

\* lines 42-59 for what jiwer did; raised is the exception that leaves the
\* function in place of a result
evaluate_text_quality(md, original, outcome) ==
    LET counts == [called |-> TRUE, raised |-> FALSE, char_count |-> Len(md),
                   word_count |-> WordCount(md), pass |-> TRUE]
    IN  IF ~Truthy(original) \/ ~outcome.installed THEN counts
        ELSE IF outcome.raised THEN [called |-> TRUE, raised |-> TRUE]
        ELSE [called |-> TRUE, raised |-> FALSE, char_count |-> Len(md),
              word_count |-> WordCount(md), cer |-> outcome.cer,
              wer |-> outcome.wer, pass |-> BelowThreshold(outcome.cer)]

\* evaluate_text_quality(silver_md, original_text); in curate (line 282) an
\* exception leaves curate too, and evaluate_structure is called next
EvaluateTextQuality ==
    /\ pc = "text_call"
    /\ IF Truthy(original_text) THEN jiwer' \in JiwerOutcomes ELSE jiwer' = NotUsed
    /\ text_quality' = evaluate_text_quality(silver_md, original_text, jiwer')
    /\ pc' = IF text_quality'.raised THEN "raised"
             ELSE IF caller = "curate" THEN "structure" ELSE "text_done"
    /\ UNCHANGED <<serviceVars, refineVars, silver_md, report, caller, api_key,
                   max_chars,
                   llm_calls, truncated_md, response, semantic, original_text,
                   curation>>

--------------------------------------------------------------------------
(* curator.curate *)

\* lines 296-301 (Korean in the source)
AllChecksPassed == "usable - all checks passed"

SemanticReviewRecommended == "usable - semantic review recommended"

NeedsRevision == "needs revision - structure/text problems found"

Bonus == 10

ScoreCap == 100

Min(a, b) == IF a <= b THEN a ELSE b

\* a mutation: the sum is not capped
OverallScore_NoCap(semantic_score, structure_pass, text_pass) ==
    semantic_score + (IF structure_pass THEN Bonus ELSE 0)
                   + (IF text_pass THEN Bonus ELSE 0)

\* lines 290-293
OverallScore(semantic_score, structure_pass, text_pass) ==
    Min(ScoreCap, semantic_score + (IF structure_pass THEN Bonus ELSE 0)
                                 + (IF text_pass THEN Bonus ELSE 0))

\* a mutation: semantic review is recommended whenever the structure passes
Recommendation_StructureOnly(text_pass, structure_pass, semantic_pass) ==
    IF text_pass /\ structure_pass /\ semantic_pass THEN AllChecksPassed
    ELSE IF structure_pass THEN SemanticReviewRecommended
    ELSE NeedsRevision

\* lines 296-301
Recommendation(text_pass, structure_pass, semantic_pass) ==
    IF text_pass /\ structure_pass /\ semantic_pass THEN AllChecksPassed
    ELSE IF structure_pass /\ text_pass THEN SemanticReviewRecommended
    ELSE NeedsRevision

\* lines 286-310, on the three reports
curate(text, structure, sem) ==
    LET all_pass == text.pass /\ structure.pass /\ sem.pass.bool
        semantic_score == AsInt(DictGet(sem, "overall_score", JInt(0)))
    IN  [called |-> TRUE,
         pass |-> all_pass,
         text_quality |-> text,
         structure_quality |-> structure,
         semantic_quality |-> sem,
         overall_score |-> OverallScore(semantic_score, structure.pass, text.pass),
         recommendation |-> Recommendation(text.pass, structure.pass, sem.pass.bool)]

\* curate after the three evaluators have returned
CurateReturn ==
    /\ pc = "combine"
    /\ curation' = curate(text_quality, report, semantic)
    /\ pc' = "curate_done"
    /\ UNCHANGED <<serviceVars, refineVars, silver_md, report, caller, api_key,
                   max_chars,
                   llm_calls, truncated_md, response, semantic, original_text,
                   jiwer, text_quality>>

--------------------------------------------------------------------------
(* core.parse_pdf                                                         *)
(*                                                                        *)
(* The file system and the document-parse service are collaborators: the  *)
(* path holds nothing, a readable file or something open() refuses, and   *)
(* requests.post raises or returns a response with a status code, a text  *)
(* and the value response.json() gives (or its failure).                  *)

NoResult == [called |-> FALSE]

NoHttp == [sent |-> FALSE]

\* parse_pdf returned value
PdfReturned(value) == [called |-> TRUE, raised |-> FALSE, value |-> value]

\* parse_pdf raised exception with this message
PdfRaised(exception, message) ==
    [called |-> TRUE, raised |-> TRUE, exception |-> exception, message |-> message]

\* line 35 (Korean in the source: the environment variable is not set)
MissingKeyMessage == "UPSTAGE_API_KEY environment variable is not set"

\* line 39 (Korean in the source: the file cannot be found), the path left out
MissingFileMessage == "file not found"

\* a mutation: the message names the status code only
ApiErrorMessage_NoText(status, text) == "API error: " \o ToString(status)

\* line 62, f"...: {response.status_code} - {response.text}" (the prefix is
\* Korean in the source: API error)
ApiErrorMessage(status, text) == "API error: " \o ToString(status) \o " - " \o text

\* the truth value of a JSON value
Truth(v) ==
    IF v.t = "str" THEN v.str # ""
    ELSE IF v.t = "int" THEN v.int # 0
    ELSE IF v.t = "bool" THEN v.bool
    ELSE IF v.t = "list" THEN v.list # <<>>
    ELSE IF v.t = "dict" THEN DOMAIN v.dict # {}
    ELSE FALSE

StatusOk == 200

\* lines 61-66 on a response: the error for a status other than 200, else
\* the markdown of the decoded body, or its text when the markdown is empty;
\* .get on a value that is not a dict raises AttributeError
ReadResponse(resp) ==
    IF resp.status # StatusOk
    THEN PdfRaised("RuntimeError", ApiErrorMessage(resp.status, resp.text))
    ELSE IF ~resp.json.ok
    THEN PdfRaised("JSONDecodeError", "Expecting value")
    ELSE IF resp.json.val.t # "dict"
    THEN PdfRaised("AttributeError",
                   TypeName(resp.json.val) \o " object has no attribute get")
    ELSE LET content == DictGet(resp.json.val.dict, "content", JDict(EmptyDict))
         IN  IF content.t # "dict"
             THEN PdfRaised("AttributeError",
                            TypeName(content) \o " object has no attribute get")
             ELSE LET md == DictGet(content.dict, "markdown", JStr(""))
                  IN  PdfReturned(IF Truth(md) THEN md
                                  ELSE DictGet(content.dict, "text", JStr("")))

\* what requests.post can do: return a response ...
HttpResponse(status, text, json) ==
    [sent |-> TRUE, raised |-> FALSE, exception |-> "", status |-> status,
     text |-> text, json |-> json]

\* ... or raise
HttpRaised(exception) ==
    [sent |-> TRUE, raised |-> TRUE, exception |-> exception, status |-> 0,
     text |-> "", json |-> [ok |-> FALSE, val |-> JNull]]

Decoded(v) == [ok |-> TRUE, val |-> v]

NotJson == [ok |-> FALSE, val |-> JNull]

\* bodies of a document-parse answer
Body(fields) == Decoded(JDict([content |-> JDict(fields)]))

HttpOutcomes ==
    { HttpRaised("ConnectionError"), HttpRaised("Timeout") }
    \cup
    { HttpResponse(200, "{...}", b) :
        b \in { Body([markdown |-> JStr("# T")]),
                Body([markdown |-> JStr(""), text |-> JStr("T")]),
                Body([text |-> JStr("T")]),
                Body([markdown |-> JNull]),
                Decoded(JDict(EmptyDict)),
                Decoded(JDict([content |-> JStr("# T")])),
                Decoded(JList(<<>>)),
                NotJson } }
    \cup
    { HttpResponse(s, t, b) :
        s \in {201, 204, 400, 401, 500},
        t \in {"", "Unauthorized"},
        b \in { NotJson, Body([markdown |-> JStr("# T")]) } }

\* a mutation: the file is looked for before the key
ParsePdfChecks_FileFirst ==
    IF pdf_file = "missing" THEN <<1, PdfRaised("ValueError", MissingFileMessage)>>
    ELSE IF ~api_key THEN <<1, PdfRaised("ValueError", MissingKeyMessage)>>
    ELSE <<1, NoResult>>

\* lines 34-39: the number of pdf_path.exists() calls and the error raised
\* (NoResult when both checks pass)
ParsePdfChecks ==
    IF ~api_key THEN <<0, PdfRaised("ValueError", MissingKeyMessage)>>
    ELSE IF pdf_file = "missing" THEN <<1, PdfRaised("ValueError", MissingFileMessage)>>
    ELSE <<1, NoResult>>

\* parse_pdf up to open() (lines 34-39)
ParsePdfCall ==
    /\ pc = "pdf_call"
    /\ file_looks' = file_looks + ParsePdfChecks[1]
    /\ pdf_result' = ParsePdfChecks[2]
    /\ pc' = IF ParsePdfChecks[2] = NoResult THEN "pdf_post" ELSE "pdf_raised"
    /\ UNCHANGED <<refineVars, silver_md, report, curateVars, jobVars, pairVars, pdf_file,
                   http_requests, http>>

\* lines 45-59: open() succeeds and the request is made, or open() raises
ParsePdfPost ==
    /\ pc = "pdf_post"
    /\ IF pdf_file = "file"
       THEN /\ http' \in HttpOutcomes
            /\ http_requests' = http_requests + 1
            /\ pdf_result' = IF http'.raised
                             THEN PdfRaised(http'.exception, "")
                             ELSE NoResult
            /\ pc' = IF http'.raised THEN "pdf_raised" ELSE "pdf_read"
       ELSE /\ pdf_result' = PdfRaised("IsADirectoryError", "")
            /\ pc' = "pdf_raised"
            /\ UNCHANGED <<http, http_requests>>
    /\ UNCHANGED <<refineVars, silver_md, report, curateVars, jobVars, pairVars, pdf_file,
                   file_looks>>

\* lines 61-68
ParsePdfReturn ==
    /\ pc = "pdf_read"
    /\ pdf_result' = ReadResponse(http)
    /\ pc' = IF pdf_result'.raised THEN "pdf_raised" ELSE "pdf_done"
    /\ UNCHANGED <<refineVars, silver_md, report, curateVars, jobVars, pairVars, pdf_file,
                   file_looks, http_requests, http>>

--------------------------------------------------------------------------
(* The documents the entry points are called with *)

\* every string over alphabet of at most n characters
RECURSIVE Strings(_, _)
Strings(alphabet, n) ==
    IF n = 0 THEN {<<>>}
    ELSE LET shorter == Strings(alphabet, n - 1)
         IN  shorter \cup {Append(s, c) : s \in shorter, c \in alphabet}

\* every document of 1..n lines taken from pool
Docs(pool, n) == {Join(ls) : ls \in UNION {[1..k -> pool] : k \in 1..n}}

RefineAlphabet == {"#", " ", "1", ".", "a", NL}

NumberedHeadings ==
    { Chars("# My Paper Title"), Chars("# 1 Introduction"), Chars("# 3.1 Method"),
      Chars("# 3.1.1 Details"), Chars("# Abstract") }

OddHeadings ==
    { Chars("## RELATED WORK "), Chars("# 1.Intro"), Chars("###"),
      Chars("  plain text "), Chars("#\tNotes") }

RefineDocs ==
    Strings(RefineAlphabet, MaxDocLen)
        \cup Docs(NumberedHeadings, MaxSampleLines)
        \cup Docs(OddHeadings, MaxSampleLines)

StructAlphabet == {"#", "|", "-", " ", "a", "$", NL}

MarkerLines ==
    { Chars("# T"), Chars("## A"), Chars("### B"), Chars("#### C"), Chars("##### D") }

TableSampleLines ==
    { Chars("|a|b|"), Chars("|1|2|3|"), Chars("|:--|:-:|--:|"), Chars("|--"),
      Chars("text") }

EquationSampleLines ==
    { Chars("$$x=1$$"), Chars("$$y=2"), Chars("$$$"), Chars("text") }

MixedSampleLines ==
    { Chars("# T"), Chars("### B"), Chars("|a|b|"), Chars("|1|2|3|$$"), Chars("text") }

StructDocs ==
    Strings(StructAlphabet, MaxDocLen)
        \cup Docs(MarkerLines, MaxSampleLines)
        \cup Docs(TableSampleLines, MaxSampleLines)
        \cup Docs(EquationSampleLines, MaxSampleLines)
        \cup Docs(MixedSampleLines, MaxSampleLines)

\* documents around the max_chars budgets below
SemanticDocs == Strings({"a", NL}, MaxShortDocLen)

\* budgets below, at and above the length of the documents, and the default
MaxCharsChoices == (-1..MaxShortDocLen) \cup {DefaultMaxChars}

\* documents of no, one and several words
TextDocs == Strings({"a", " ", NL}, MaxShortDocLen)

\* no reference, an empty one, and a text
References == { None, Some(<<>>), Some(Chars("a b")) }

\* documents whose structure passes, and documents whose structure fails
CurateDocs == { <<>>, Chars("# T"), Chars("$$x"), Join(<<Chars("# T"), Chars("### B")>>) }

--------------------------------------------------------------------------
(* api: the in-memory job store and its background tasks                  *)
(*                                                                        *)
(* The handlers and _process_job contain no await between their reads and *)
(* writes of jobs, so each runs as one step of the event loop; a task     *)
(* made by asyncio.create_task starts at a later step, and                *)
(* _process_all_jobs yields between jobs (await asyncio.sleep).           *)
(* _process_job calls process (parse_pdf, then refine_headings) and       *)
(* curate; the document-parse service and the language model answer       *)
(* anything, and the calls made to them are counted where the direct      *)
(* calls count them.                                                      *)

JobIds == 1..MaxJobs

NoMarkdown == None

NoScore == [given |-> FALSE, int |-> 0]

Score(n) == [given |-> TRUE, int |-> n]

NoError == [given |-> FALSE, str |-> ""]

Error(s) == [given |-> TRUE, str |-> s]

\* lines 94-100: JobResult(status=PENDING, progress=0, ...), the other
\* fields at their defaults
NewJob ==
    [status |-> "pending", progress |-> 0, markdown |-> NoMarkdown,
     quality_score |-> NoScore, error |-> NoError, completed_at |-> FALSE]

\* what process(temp_path) and curate(markdown) did for one job: both
\* returned (the markdown and the report's overall_score), or one of them
\* raised e with str(e) = error; and the calls made meanwhile: exists() in
\* parse_pdf, requests.post, llm.invoke
Processed(md, score, llm) ==
    [raised |-> FALSE, markdown |-> md, score |-> score, error |-> "",
     file_looks |-> 1, http_requests |-> 1, llm_calls |-> llm]

ProcessRaised(error, looks, requests) ==
    [raised |-> TRUE, markdown |-> <<>>, score |-> NoScore, error |-> error,
     file_looks |-> looks, http_requests |-> requests, llm_calls |-> 0]

\* process, line 177: refine_headings(raw) on what parse_pdf returned or
\* raised; a value that is not a str has no split
RefineParsed(parsed) ==
    IF parsed.raised
    THEN [raised |-> TRUE, markdown |-> <<>>, error |-> parsed.message,
          file_looks |-> 1, http_requests |-> 1]
    ELSE IF parsed.value.t # "str"
    THEN [raised |-> TRUE, markdown |-> <<>>,
          error |-> TypeName(parsed.value) \o " object has no attribute split",
          file_looks |-> 1, http_requests |-> 1]
    ELSE [raised |-> FALSE, markdown |-> refine_headings(Chars(parsed.value.str)),
          error |-> "", file_looks |-> 1, http_requests |-> 1]

\* core.process (src/silverforge/core.py lines 164-177) on a path that holds
\* a file, requests.post doing answer: parse_pdf raises, or its markdown goes
\* through refine_headings
process(answer) ==
    IF ~api_key
    THEN [raised |-> TRUE, markdown |-> <<>>, error |-> MissingKeyMessage,
          file_looks |-> 0, http_requests |-> 0]
    ELSE RefineParsed(IF answer.raised THEN PdfRaised(answer.exception, "")
                      ELSE ReadResponse(answer))

\* curate(markdown) (curator.py lines 282-310) without a reference, the
\* language model doing resp when it is called
curate_markdown(md, resp) ==
    curate(evaluate_text_quality(md, None, NotUsed),
           evaluate_structure(md),
           IF NoKey THEN NoKeyReport ELSE HandleResponse(resp))

\* lines 173-180 of _process_job: curate on what process returned, then
\* quality.get("overall_score", 0)
CurateProcessed(p, resp) ==
    IF p.raised THEN ProcessRaised(p.error, p.file_looks, p.http_requests)
    ELSE Processed(p.markdown,
                   Score(curate_markdown(p.markdown, resp).overall_score),
                   IF NoKey THEN 0 ELSE 1)

\* lines 170-180 of _process_job: process, then curate
process_and_curate(answer, resp) == CurateProcessed(process(answer), resp)

\* what the document-parse service and the language model answer to a task
TaskHttpOutcomes ==
    { HttpResponse(200, "{...}", Body([markdown |-> JStr("# T")])),
      HttpResponse(500, "", NotJson) }

TaskLlmOutcomes ==
    { Returned(ScoreObject(<<"75">>)),
      Raised("ConnectionError", "connection refused") }

\* lines 189-192
FailJob(job, error) ==
    [job EXCEPT !.status = "failed", !.error = Error(error), !.progress = 0]

\* lines 159-162: only the status and the error are written
FailJobNoFile(job) ==
    [job EXCEPT !.status = "failed", !.error = Error("Temp file not found")]

\* lines 179-184
CompleteJob(job, outcome) ==
    [job EXCEPT !.status = "completed",
                !.progress = 100,
                !.markdown = Some(outcome.markdown),
                !.quality_score = IF outcome.score.given THEN outcome.score
                                  ELSE Score(0),
                !.completed_at = TRUE]

\* _process_job(j) on a job whose temp file exists (lines 164-192): the job
\* afterwards
process_job_result(j, outcome) ==
    IF outcome.raised THEN FailJob(jobs[j], outcome.error)
    ELSE CompleteJob(jobs[j], outcome)

\* a background task: the job ids it was given, the position it has
\* reached, and whether it is waiting to run, has finished, or has died of
\* an exception
Task(kind, job_ids) == [kind |-> kind, job_ids |-> job_ids, at |-> 1, state |-> "ready"]

\* the ids of the jobs in dict order (ids are issued in increasing order)
RECURSIVE IdsInOrder(_)
IdsInOrder(S) ==
    IF S = {} THEN <<>>
    ELSE LET m == CHOOSE x \in S : \A y \in S : x <= y
         IN  <<m>> \o IdsInOrder(S \ {m})

\* POST /upload with one PDF (lines 84-105): a fresh id, the temp file, the
\* job
UploadFile ==
    /\ pc = "api"
    /\ issued < MaxJobs
    /\ issued' = issued + 1
    /\ jobs' = [j \in DOMAIN jobs \cup {issued + 1} |->
                   IF j = issued + 1 THEN NewJob ELSE jobs[j]]
    /\ files' = files \cup {issued + 1}
    /\ UNCHANGED <<tasks, pc, refineVars, silver_md, report, curateVars, pdfVars, pairVars>>

\* POST /process/{job_id} (lines 111-130); 404 and the two "already"
\* answers change nothing
ProcessJob ==
    /\ pc = "api"
    /\ Len(tasks) < MaxTasks
    /\ \E j \in DOMAIN jobs :
        /\ jobs[j].status \notin {"processing", "completed"}
        /\ tasks' = Append(tasks, Task("single", <<j>>))
    /\ UNCHANGED <<jobs, files, issued, pc, refineVars, silver_md, report,
                   curateVars, pdfVars, pairVars>>

\* POST /process-all (lines 133-149); with nothing pending no task is made
ProcessAllJobs ==
    /\ pc = "api"
    /\ Len(tasks) < MaxTasks
    /\ LET pending_jobs ==
               IdsInOrder({j \in DOMAIN jobs : jobs[j].status = "pending"})
       IN  /\ pending_jobs # <<>>
           /\ tasks' = Append(tasks, Task("batch", pending_jobs))
    /\ UNCHANGED <<jobs, files, issued, pc, refineVars, silver_md, report,
                   curateVars, pdfVars, pairVars>>

\* a task runs _process_job on its next job id (lines 152-192, and one turn
\* of the loop of lines 195-201): jobs[job_id] raises KeyError for a deleted
\* job and the task dies; a completed job's temp file is removed; the
\* requests and language-model calls of process and curate are counted
\* (any ready task may take the next step; the event loop starts tasks in
\* the order they were made, so this allows every schedule it has and more)
RunTask ==
    /\ pc = "api"
    /\ \E t \in 1..Len(tasks) :
        /\ tasks[t].state = "ready"
        /\ LET j == tasks[t].job_ids[tasks[t].at]
               advanced == [tasks EXCEPT
                              ![t].at = @ + 1,
                              ![t].state = IF tasks[t].at = Len(tasks[t].job_ids)
                                           THEN "done" ELSE "ready"]
           IN  IF j \notin DOMAIN jobs
               THEN /\ tasks' = [tasks EXCEPT ![t].state = "died"]
                    /\ UNCHANGED <<jobs, files, file_looks, http_requests, llm_calls>>
               ELSE IF j \notin files
               THEN /\ jobs' = [jobs EXCEPT ![j] = FailJobNoFile(jobs[j])]
                    /\ tasks' = advanced
                    /\ UNCHANGED <<files, file_looks, http_requests, llm_calls>>
               ELSE \E answer \in TaskHttpOutcomes, resp \in TaskLlmOutcomes :
                    \E outcome \in {process_and_curate(answer, resp)} :
                        /\ jobs' = [jobs EXCEPT ![j] = process_job_result(j, outcome)]
                        /\ files' = IF outcome.raised THEN files ELSE files \ {j}
                        /\ tasks' = advanced
                        /\ file_looks' = file_looks + outcome.file_looks
                        /\ http_requests' = http_requests + outcome.http_requests
                        /\ llm_calls' = llm_calls + outcome.llm_calls
    /\ UNCHANGED <<issued, pc, refineVars, silver_md, report, pairVars, pdf_file,
                   http, pdf_result, caller, api_key, max_chars, truncated_md,
                   response, semantic, original_text, jiwer, text_quality,
                   curation>>

\* DELETE /jobs/{job_id} (lines 277-294)
DeleteJob ==
    /\ pc = "api"
    /\ \E j \in DOMAIN jobs :
        /\ jobs' = [k \in DOMAIN jobs \ {j} |-> jobs[k]]
        /\ files' = files \ {j}
    /\ UNCHANGED <<issued, tasks, pc, refineVars, silver_md, report, curateVars,
                   pdfVars, pairVars>>

\* DELETE /jobs (lines 297-309)
ClearAllJobs ==
    /\ pc = "api"
    /\ DOMAIN jobs # {}
    /\ jobs' = <<>>
    /\ files' = files \ DOMAIN jobs
    /\ UNCHANGED <<issued, tasks, pc, refineVars, silver_md, report, curateVars,
                   pdfVars, pairVars>>

--------------------------------------------------------------------------
(* Callers side by side                                                   *)
(*                                                                        *)
(* Two callers (threads, tasks, or one caller after another) call         *)
(* refine_headings, evaluate_structure, evaluate_text_quality and curate, *)
(* one call after another each, their steps interleaved in any order.     *)
(* The names a function assigns (lines, refined_lines, title_found,       *)
(* issues, result, ...) are locals of the call: they live in the frame of *)
(* the caller that made the call.  Nothing in core.py or curator.py is    *)
(* assigned at module level after import, and UPSTAGE_API_KEY is only     *)
(* read.                                                                  *)

Callers == {1, 2}

Functions ==
    {"refine_headings", "evaluate_structure", "evaluate_text_quality", "curate"}

NoLocals == [none |-> TRUE]

\* a caller that has made no call yet
IdleFrame ==
    [fn |-> "none", at |-> "idle", calls |-> 0, md |-> <<>>, original |-> None,
     title_found |-> FALSE, jiwer |-> NotUsed, response |-> Returned(<<>>),
     locals |-> NoLocals, result |-> NoReport]

\* the frame at the start of the call fn(md, original); old is what the
\* caller's previous call left behind
EnterCall(old, fn, md, original) ==
    [fn |-> fn,
     at |-> CASE fn = "refine_headings" -> "loop"
              [] fn = "evaluate_structure" -> "headings"
              [] fn = "evaluate_text_quality" -> "reference"
              [] OTHER -> "text_quality",
     calls |-> old.calls + 1,
     md |-> md,
     original |-> original,
     \* core.py line 170
     title_found |-> IF fn = "refine_headings"
                     THEN TitleFoundAtCall(old.title_found)
                     ELSE old.title_found,
     jiwer |-> NotUsed,
     response |-> Returned(<<>>),
     locals |-> CASE fn = "refine_headings" ->
                       \* core.py lines 168-169
                       [lines |-> Split(md), idx |-> 0, refined_lines |-> <<>>]
                  [] fn = "evaluate_structure" ->
                       \* curator.py lines 86-87
                       [lines |-> Split(md), issues |-> <<>>]
                  [] fn = "evaluate_text_quality" ->
                       \* curator.py lines 42-46
                       [result |-> [called |-> TRUE, raised |-> FALSE,
                                    char_count |-> Len(md),
                                    word_count |-> WordCount(md),
                                    pass |-> TRUE]]
                  [] OTHER -> NoLocals,
     result |-> NoReport]

CallOver(f) == f.at \in {"idle", "returned", "raised"}

\* documents, references and collaborator answers of the side-by-side calls
PairDocs == { Chars("x"), Join(<<Chars("# A"), Chars("### B")>>) }

PairReferences == { None, Some(Chars("x")) }

PairJiwer == { NotInstalled, JiwerRaised, Rates(Rate(3, 20), Rate(1, 2)) }

PairResponses ==
    { Returned(ScoreObject(<<"85">>)), Raised("ConnectionError", "connection refused") }

\* a caller calls one of the functions
PairCall(c) ==
    /\ pc = "pair"
    /\ CallOver(frames[c])
    /\ frames[c].calls < MaxCalls
    /\ \E fn \in Functions, md \in PairDocs, original \in PairReferences :
        /\ fn \in {"refine_headings", "evaluate_structure"} => original = None
        /\ frames' = [frames EXCEPT ![c] = EnterCall(frames[c], fn, md, original)]
    /\ UNCHANGED nonPairVars

\* refine_headings: one iteration of the for loop (core.py lines 172-186)
PairRefineStep(c) ==
    LET f == frames[c]
        l == f.locals
    IN  /\ pc = "pair"
        /\ f.fn = "refine_headings" /\ f.at = "loop"
        /\ l.idx < Len(l.lines)
        /\ LET r == RefineLine(l.lines[l.idx + 1], f.title_found)
           IN  frames' = [frames EXCEPT
                   ![c].title_found = r.title_found,
                   ![c].locals = [l EXCEPT !.idx = @ + 1,
                                           !.refined_lines = Append(@, r.out)]]
        /\ UNCHANGED nonPairVars

\* refine_headings: return "\n".join(refined_lines) (core.py line 188)
PairRefineReturn(c) ==
    LET f == frames[c]
        l == f.locals
    IN  /\ pc = "pair"
        /\ f.fn = "refine_headings" /\ f.at = "loop"
        /\ l.idx = Len(l.lines)
        /\ frames' = [frames EXCEPT
               ![c].result = [called |-> TRUE, value |-> Join(l.refined_lines)],
               ![c].at = "returned"]
        /\ UNCHANGED nonPairVars

\* evaluate_structure: the heading analysis (curator.py lines 89-108)
PairStructureHeadings(c) ==
    LET f == frames[c]
        l == f.locals
        heading_levels == HeadingLevels(l.lines)
        order == HeadingOrder(heading_levels)
    IN  /\ pc = "pair"
        /\ f.fn = "evaluate_structure" /\ f.at = "headings"
        /\ frames' = [frames EXCEPT
               ![c].at = "tables",
               ![c].locals = [lines |-> l.lines,
                              issues |-> l.issues \o order.issues,
                              heading_count |-> HeadingCount(heading_levels),
                              heading_order_valid |-> order.valid]]
        /\ UNCHANGED nonPairVars

\* evaluate_structure: the table analysis (curator.py lines 110-137)
PairStructureTables(c) ==
    LET f == frames[c]
        l == f.locals
        table_lines == TableLines(l.lines)
        table == IF table_lines # <<>> THEN TableCheck(table_lines)
                 ELSE [valid |-> TRUE, issues |-> <<>>]
    IN  /\ pc = "pair"
        /\ f.fn = "evaluate_structure" /\ f.at = "tables"
        /\ frames' = [frames EXCEPT
               ![c].at = "equations",
               ![c].locals = [lines |-> l.lines,
                              issues |-> l.issues \o table.issues,
                              heading_count |-> l.heading_count,
                              heading_order_valid |-> l.heading_order_valid,
                              table_count |-> IF table_lines # <<>>
                                              THEN TableCount(l.lines) ELSE 0,
                              table_valid |-> table.valid]]
        /\ UNCHANGED nonPairVars

\* evaluate_structure: the equation analysis and the return (curator.py
\* lines 139-157)
PairStructureReturn(c) ==
    LET f == frames[c]
        l == f.locals
        n == EquationMatches(f.md)
        equation_valid == n % 2 = 0
    IN  /\ pc = "pair"
        /\ f.fn = "evaluate_structure" /\ f.at = "equations"
        /\ frames' = [frames EXCEPT
               ![c].at = "returned",
               ![c].result =
                   [called              |-> TRUE,
                    heading_count       |-> l.heading_count,
                    heading_order_valid |-> l.heading_order_valid,
                    table_count         |-> l.table_count,
                    table_valid         |-> l.table_valid,
                    equation_count      |-> n \div 2,
                    equation_valid      |-> equation_valid,
                    issues              |-> l.issues \o
                                            (IF equation_valid THEN <<>>
                                             ELSE <<[kind |-> "equation_unpaired"]>>),
                    pass                |-> l.heading_order_valid /\ l.table_valid
                                            /\ equation_valid]]
        /\ UNCHANGED nonPairVars

\* evaluate_text_quality: the comparison with the reference and the return
\* (curator.py lines 48-59)
PairTextReturn(c) ==
    LET f == frames[c]
        counts == f.locals.result
    IN  /\ pc = "pair"
        /\ f.fn = "evaluate_text_quality" /\ f.at = "reference"
        /\ \E outcome \in (IF Truthy(f.original) THEN PairJiwer ELSE {NotUsed}) :
            frames' = [frames EXCEPT
                ![c].jiwer = outcome,
                ![c].at = IF outcome.installed /\ outcome.raised
                          THEN "raised" ELSE "returned",
                ![c].result =
                    IF ~outcome.installed THEN counts
                    ELSE IF outcome.raised THEN [called |-> TRUE, raised |-> TRUE]
                    ELSE [called |-> TRUE, raised |-> FALSE,
                          char_count |-> counts.char_count,
                          word_count |-> counts.word_count,
                          cer |-> outcome.cer, wer |-> outcome.wer,
                          pass |-> BelowThreshold(outcome.cer)]]
        /\ UNCHANGED nonPairVars

\* curate: text_quality = evaluate_text_quality(silver_md, original_text)
\* (curator.py line 282)
PairCurateText(c) ==
    LET f == frames[c]
    IN  /\ pc = "pair"
        /\ f.fn = "curate" /\ f.at = "text_quality"
        /\ \E outcome \in (IF Truthy(f.original) THEN PairJiwer ELSE {NotUsed}) :
            LET text == evaluate_text_quality(f.md, f.original, outcome)
            IN  frames' = [frames EXCEPT
                    ![c].jiwer = outcome,
                    ![c].at = IF text.raised THEN "raised" ELSE "structure_quality",
                    ![c].locals = [text_quality |-> text],
                    ![c].result = IF text.raised THEN text ELSE NoReport]
        /\ UNCHANGED nonPairVars

\* curate: structure_quality = evaluate_structure(silver_md) (line 283)
PairCurateStructure(c) ==
    LET f == frames[c]
    IN  /\ pc = "pair"
        /\ f.fn = "curate" /\ f.at = "structure_quality"
        /\ frames' = [frames EXCEPT
               ![c].at = "semantic_quality",
               ![c].locals = [text_quality |-> f.locals.text_quality,
                              structure_quality |-> evaluate_structure(f.md)]]
        /\ UNCHANGED nonPairVars

\* curate: semantic_quality = evaluate_semantic(silver_md) (line 284) up to
\* the request: without a key the zero report comes back at once (lines
\* 181-190), otherwise the markdown is truncated (lines 195-197)
PairCurateSemanticCall(c) ==
    LET f == frames[c]
    IN  /\ pc = "pair"
        /\ f.fn = "curate" /\ f.at = "semantic_quality"
        /\ IF NoKey
           THEN frames' = [frames EXCEPT
                    ![c].at = "combine",
                    ![c].locals = [text_quality |-> f.locals.text_quality,
                                   structure_quality |-> f.locals.structure_quality,
                                   semantic_quality |-> NoKeyReport]]
           ELSE frames' = [frames EXCEPT
                    ![c].at = "sem_invoke",
                    ![c].locals = [text_quality |-> f.locals.text_quality,
                                   structure_quality |-> f.locals.structure_quality,
                                   truncated_md |-> Truncate(f.md, DefaultMaxChars)]]
        /\ UNCHANGED nonPairVars

\* evaluate_semantic: response = llm.invoke(prompt) (line 222), the language
\* model answering anything; the other caller runs while the request is out
PairLlmInvoke(c) ==
    LET f == frames[c]
    IN  /\ pc = "pair"
        /\ f.fn = "curate" /\ f.at = "sem_invoke"
        /\ \E resp \in PairResponses :
            frames' = [frames EXCEPT ![c].response = resp, ![c].at = "sem_parse"]
        /\ llm_calls' = llm_calls + 1
        /\ UNCHANGED <<pc, refineVars, silver_md, report, pdfVars, jobVars, caller,
                       api_key, max_chars, truncated_md, response, semantic,
                       original_text, jiwer, text_quality, curation>>

\* evaluate_semantic: the answer parsed or the failure reported (lines
\* 223-259), back in curate
PairCurateSemanticReturn(c) ==
    LET f == frames[c]
    IN  /\ pc = "pair"
        /\ f.fn = "curate" /\ f.at = "sem_parse"
        /\ frames' = [frames EXCEPT
               ![c].at = "combine",
               ![c].locals = [text_quality |-> f.locals.text_quality,
                              structure_quality |-> f.locals.structure_quality,
                              truncated_md |-> f.locals.truncated_md,
                              semantic_quality |-> HandleResponse(f.response)]]
        /\ UNCHANGED nonPairVars

\* curate: the rest (lines 286-310)
PairCurateReturn(c) ==
    LET f == frames[c]
        l == f.locals
    IN  /\ pc = "pair"
        /\ f.fn = "curate" /\ f.at = "combine"
        /\ frames' = [frames EXCEPT
               ![c].at = "returned",
               ![c].result = curate(l.text_quality, l.structure_quality,
                                    l.semantic_quality)]
        /\ UNCHANGED nonPairVars

--------------------------------------------------------------------------
(* The state machine *)

\* a caller about to call refine_headings(markdown)
InitRefine ==
    /\ markdown \in RefineDocs
    /\ pc = "call"
    /\ silver_md = <<>>
    /\ caller = "direct"
    /\ api_key = FALSE
    /\ max_chars = DefaultMaxChars
    /\ original_text = None

\* a caller about to call evaluate_structure(silver_md)
InitStructure ==
    /\ silver_md \in StructDocs
    /\ pc = "structure"
    /\ markdown = <<>>
    /\ caller = "direct"
    /\ api_key = FALSE
    /\ max_chars = DefaultMaxChars
    /\ original_text = None

\* a caller about to call evaluate_semantic(silver_md, max_chars), the key
\* set or not
InitSemantic ==
    /\ silver_md \in SemanticDocs
    /\ max_chars \in MaxCharsChoices
    /\ api_key \in BOOLEAN
    /\ pc = "sem_call"
    /\ markdown = <<>>
    /\ caller = "direct"
    /\ original_text = None

\* a caller about to call evaluate_text_quality(silver_md, original_text)
InitTextQuality ==
    /\ silver_md \in TextDocs
    /\ original_text \in References
    /\ pc = "text_call"
    /\ markdown = <<>>
    /\ caller = "direct"
    /\ api_key = FALSE
    /\ max_chars = DefaultMaxChars

\* a caller about to call curate(silver_md, original_text): line 282 comes
\* first, and evaluate_semantic gets the default max_chars
InitCurate ==
    /\ silver_md \in CurateDocs
    /\ original_text \in References
    /\ api_key \in BOOLEAN
    /\ pc = "text_call"
    /\ markdown = <<>>
    /\ caller = "curate"
    /\ max_chars = DefaultMaxChars

\* a caller about to call parse_pdf(pdf_path), the key set or not
InitParsePdf ==
    /\ pdf_file \in {"missing", "file", "directory"}
    /\ api_key \in BOOLEAN
    /\ pc = "pdf_call"
    /\ markdown = <<>>
    /\ silver_md = <<>>
    /\ caller = "direct"
    /\ max_chars = DefaultMaxChars
    /\ original_text = None

\* the server just started: no job, no task, the key set or not; what
\* process is given is a temp file that upload wrote
InitApi ==
    /\ pc = "api"
    /\ markdown = <<>>
    /\ silver_md = <<>>
    /\ caller = "direct"
    /\ api_key \in BOOLEAN
    /\ max_chars = DefaultMaxChars
    /\ original_text = None

\* two callers about to make their calls, the key set
InitPair ==
    /\ pc = "pair"
    /\ markdown = <<>>
    /\ silver_md = <<>>
    /\ caller = "direct"
    /\ api_key = TRUE
    /\ max_chars = DefaultMaxChars
    /\ original_text = None

Init ==
    /\ \/ InitParsePdf
       \/ /\ \/ InitRefine \/ InitStructure \/ InitSemantic \/ InitTextQuality
             \/ InitCurate \/ InitPair
          /\ pdf_file = "missing"
       \/ /\ InitApi
          /\ pdf_file = "file"
    /\ frames = [c \in Callers |-> IdleFrame]
    /\ jobs = <<>>
    /\ files = {}
    /\ issued = 0
    /\ tasks = <<>>
    /\ file_looks = 0
    /\ http_requests = 0
    /\ http = NoHttp
    /\ pdf_result = NoResult
    /\ lines = <<>>
    /\ idx = 0
    /\ refined_lines = <<>>
    /\ title_found = FALSE
    /\ levels = <<>>
    /\ result = <<>>
    /\ runs = 1
    /\ first_result = <<>>
    /\ report = NoReport
    /\ llm_calls = 0
    /\ truncated_md = <<>>
    /\ response = Returned(<<>>)
    /\ semantic = NoReport
    /\ jiwer = NotUsed
    /\ text_quality = NoReport
    /\ curation = NoReport

Next ==
    \/ RefineCall
    \/ RefineStep
    \/ RefineReturn
    \/ RefineAgain
    \/ EvaluateStructure
    \/ EvaluateSemanticCall
    \/ LlmInvoke
    \/ EvaluateSemanticReturn
    \/ EvaluateTextQuality
    \/ CurateReturn
    \/ ParsePdfCall
    \/ ParsePdfPost
    \/ ParsePdfReturn
    \/ UploadFile
    \/ ProcessJob
    \/ ProcessAllJobs
    \/ RunTask
    \/ DeleteJob
    \/ ClearAllJobs
    \/ \E c \in Callers : PairCall(c)
    \/ \E c \in Callers : PairRefineStep(c)
    \/ \E c \in Callers : PairRefineReturn(c)
    \/ \E c \in Callers : PairStructureHeadings(c)
    \/ \E c \in Callers : PairStructureTables(c)
    \/ \E c \in Callers : PairStructureReturn(c)
    \/ \E c \in Callers : PairTextReturn(c)
    \/ \E c \in Callers : PairCurateText(c)
    \/ \E c \in Callers : PairCurateStructure(c)
    \/ \E c \in Callers : PairCurateSemanticCall(c)
    \/ \E c \in Callers : PairLlmInvoke(c)
    \/ \E c \in Callers : PairCurateSemanticReturn(c)
    \/ \E c \in Callers : PairCurateReturn(c)

Spec == Init /\ [][Next]_vars

\* the event loop runs every task that is ready; requests may stop coming
FairSpec == Init /\ [][Next]_vars /\ WF_vars(RunTask)

--------------------------------------------------------------------------
(* Properties of refine_headings *)

\* the lines the loop has consumed so far
Consumed == 1..Len(levels)

\* line i was rewritten (the regex matched and a new marker was written)
Rewritten(i) == levels[i] # 0

\* the text of an output heading line: what follows the marker and one space
OutText(i) == SubSeq(refined_lines[i], levels[i] + 2, Len(refined_lines[i]))

\* a line without its leading run of '#'
DropMarker(l) == SubSeq(l, RunLen(l, 1, {"#"}) + 1, Len(l))

AllDigits(t, from, to) == \A k \in from..to : t[k] \in Digits

\* text starts with digits '.' digits '.' digits
StartsIntIntInt(t) ==
    \E p, q \in 1..Len(t) :
        /\ 2 <= p /\ p + 2 <= q /\ q < Len(t)
        /\ t[p] = "." /\ t[q] = "."
        /\ AllDigits(t, 1, p - 1) /\ AllDigits(t, p + 1, q - 1)
        /\ t[q + 1] \in Digits

\* text starts with digits '.' digits
StartsIntInt(t) ==
    \E p \in 2..(Len(t) - 1) :
        t[p] = "." /\ AllDigits(t, 1, p - 1) /\ t[p + 1] \in Digits

\* text starts with digits, an optional period, then whitespace
StartsIntSpace(t) ==
    \E p \in 2..Len(t) :
        /\ t[p] \in Whitespace
        /\ \/ AllDigits(t, 1, p - 1)
           \/ p >= 3 /\ t[p - 1] = "." /\ AllDigits(t, 1, p - 2)

\* text equals a canonical section name, case-insensitively
IsCanonicalName(t) ==
    \E name \in special_h2 :
        Len(name) = Len(t) /\ \A k \in 1..Len(t) : LowerChar(t[k]) = name[k]

\* the depth the ordered rule list gives
RuleDepth(t, titleAssigned) ==
    IF StartsIntIntInt(t) THEN 4
    ELSE IF StartsIntInt(t) THEN 3
    ELSE IF StartsIntSpace(t) THEN 2
    ELSE IF IsCanonicalName(t) THEN 2
    ELSE IF titleAssigned THEN 2
    ELSE 1

\* C1: the output has as many lines as the input, and every line that does
\* not start with '#' is unchanged at the same index.
C1_LinesPreserved ==
    pc = "done" =>
        LET inp == Split(markdown)
            out == Split(result)
        IN  /\ Count(result, NL) = Count(markdown, NL)
            /\ Len(out) = Len(inp)
            /\ \A i \in 1..Len(inp) : ~StartsWith(inp[i], "#") => out[i] = inp[i]

C1_Witness ==
    /\ pc = "done"
    /\ result # markdown
    /\ \E i, j \in 1..Len(lines) :
        /\ ~StartsWith(lines[i], "#") /\ Strip(lines[i]) # lines[i]
        /\ Rewritten(j)

\* C2: the depth of every rewritten heading is the one the first matching
\* rule gives (int.int.int 4, int.int 3, int[.] whitespace 2, canonical name
\* 2, else 1 before any depth 1 was assigned and 2 after), it is in 1..4, and
\* the output line carries exactly that many marker characters.
C2_DepthByFirstRule ==
    \A i \in Consumed :
        Rewritten(i) =>
            /\ levels[i] \in 1..4
            /\ levels[i] = RuleDepth(OutText(i), \E j \in 1..(i - 1) : levels[j] = 1)
            /\ SubSeq(refined_lines[i], 1, levels[i] + 1) = Hashes(levels[i]) \o <<" ">>

C2_Witness ==
    /\ pc = "done"
    /\ \A d \in 1..4 : \E i \in Consumed : levels[i] = d
    /\ \E i \in Consumed : levels[i] = 2 /\ IsCanonicalName(OutText(i))

\* C3: a heading whose text begins with a number is never assigned depth 1.
C3_NumericNeverTitle ==
    \A i \in Consumed :
        (Rewritten(i) /\ OutText(i) # <<>> /\ OutText(i)[1] \in Digits)
            => levels[i] # 1

\* C4: during a pass the title flag is false until the first heading is
\* assigned depth 1 and true from then on, and at most one heading is
\* assigned depth 1.
C4_TitleFlagPermanent ==
    pc \in {"loop", "done"} =>
        /\ title_found = (\E j \in Consumed : levels[j] = 1)
        /\ Cardinality({j \in Consumed : levels[j] = 1}) <= 1

C4_Witness ==
    /\ pc = "done"
    /\ title_found
    /\ \E i, j \in Consumed :
        /\ i < j
        /\ levels[i] = 1
        /\ levels[j] = 2
        /\ RuleDepth(OutText(j), FALSE) = 1

\* C5 as stated: a rewritten heading line differs from the input line in its
\* leading run of '#' only.
C5_OnlyMarkerChanges ==
    \A i \in Consumed :
        Rewritten(i) => DropMarker(refined_lines[i]) = DropMarker(lines[i])

\* C5 as amended: a rewritten heading line is the new marker, exactly one
\* space, and the text that follows a marker run in the input line with the
\* whitespace around it trimmed.
C5_MarkerAndSpacing ==
    \A i \in Consumed :
        Rewritten(i) =>
            LET t == OutText(i)
            IN  /\ refined_lines[i] = Hashes(levels[i]) \o <<" ">> \o t
                /\ Strip(t) = t
                /\ \E m \in 1..Len(lines[i]) :
                    /\ \A k \in 1..m : lines[i][k] = "#"
                    /\ Strip(SubSeq(lines[i], m + 1, Len(lines[i]))) = t

C5_Witness ==
    /\ pc = "done"
    /\ \E i \in Consumed :
        /\ Rewritten(i)
        /\ OutText(i) # <<>>
        /\ RunLen(lines[i], 1, {"#"}) = levels[i]
        /\ refined_lines[i] # lines[i]

\* C6: a line that starts with '#' and holds only marker characters and
\* whitespace is passed through unchanged.
C6_BareMarkerUnchanged ==
    \A i \in Consumed :
        (/\ StartsWith(lines[i], "#")
         /\ \A k \in 1..Len(lines[i]) : lines[i][k] \in {"#"} \cup Whitespace)
            => refined_lines[i] = lines[i]

\* C7 as stated: the normalizer is not idempotent; once a second
\* normalization has returned, some document of the input space is one that
\* a second normalization changes.
C7_NotIdempotent ==
    (pc = "done" /\ runs = 2) =>
        \E d \in RefineDocs :
            refine_headings(refine_headings(d)) # refine_headings(d)

\* C7 as amended: normalizing the output of refine_headings once more
\* returns it unchanged.
C7_Idempotent ==
    (pc = "done" /\ runs = 2) => result = first_result

C7_Witness ==
    /\ pc = "done"
    /\ runs = 2
    /\ \E i, j, k \in Consumed : levels[i] = 1 /\ levels[j] = 3 /\ levels[k] = 4

--------------------------------------------------------------------------
(* Properties of evaluate_structure *)

SLines == Split(silver_md)

\* number of '#' a line starts with
MarkerRun(l) ==
    IF ~StartsWith(l, "#") THEN 0
    ELSE CHOOSE k \in 1..Len(l) :
            (\A m \in 1..k : l[m] = "#") /\ (k = Len(l) \/ l[k + 1] # "#")

\* depth of a heading line of depth 1..4 (0 for every other line)
Depth(l) == IF MarkerRun(l) \in 1..4 THEN MarkerRun(l) ELSE 0

\* <<i, j>>: heading lines i < j with no heading line between them, where
\* the depth rises by more than one
ForwardJumps ==
    {p \in (1..Len(SLines)) \X (1..Len(SLines)) :
        /\ p[1] < p[2]
        /\ Depth(SLines[p[1]]) > 0
        /\ Depth(SLines[p[2]]) > Depth(SLines[p[1]]) + 1
        /\ \A k \in (p[1] + 1)..(p[2] - 1) : Depth(SLines[k]) = 0}

IssuesOfKind(kind) == SelectSeq(report.issues, LAMBDA x : x.kind = kind)

\* C8: heading_order_valid is false exactly when some heading depth exceeds
\* the depth of the heading before it by more than one; decreases never
\* count; only the first such transition is recorded, as one issue naming
\* its two depths.
C8_HeadingOrder ==
    pc = "reported" =>
        /\ report.heading_order_valid = (ForwardJumps = {})
        /\ IssuesOfKind("heading_jump") =
             IF ForwardJumps = {} THEN <<>>
             ELSE LET f == CHOOSE p \in ForwardJumps : \A q \in ForwardJumps : p[2] <= q[2]
                  IN  <<[kind |-> "heading_jump",
                         from |-> Depth(SLines[f[1]]),
                         to   |-> Depth(SLines[f[2]])]>>

C8_Witness ==
    /\ pc = "reported"
    /\ ~report.heading_order_valid
    /\ Cardinality(ForwardJumps) >= 2
    /\ \E i \in 2..Len(SLines) :
        Depth(SLines[i]) > 0 /\ Depth(SLines[i - 1]) > Depth(SLines[i]) + 1

\* a table line: the first character that is not whitespace is '|'
IsTab(l) ==
    \E p \in 1..Len(l) : l[p] = "|" /\ \A q \in 1..(p - 1) : l[q] \in Whitespace

TabIndexes == {i \in 1..Len(SLines) : IsTab(SLines[i])}

FirstTab == CHOOSE i \in TabIndexes : \A j \in TabIndexes : i <= j

OnlySeparatorChars(l) ==
    \A k \in 1..Len(l) : l[k] \in {"|", "-", ":"} \cup Whitespace

\* a separator line as the code takes it: trimmed, it starts and ends with
\* '|', holds at least one character between them, and only separator
\* characters
ClosedSeparator(l) ==
    /\ OnlySeparatorChars(l)
    /\ Len(Strip(l)) >= 3
    /\ Strip(l)[Len(Strip(l))] = "|"

\* C9 as stated: table_valid exactly when every table line either holds
\* only pipes, dashes, colons and whitespace or has the pipe count of the
\* first table line.
C9_AnySeparatorExempt ==
    pc = "reported" =>
        report.table_valid =
            (\A i \in TabIndexes :
                OnlySeparatorChars(SLines[i])
                    \/ Count(SLines[i], "|") = Count(SLines[FirstTab], "|"))

\* C9 as amended: table_valid exactly when every table line is a separator
\* line that starts and ends with '|' (trimmed, with at least one separator
\* character between), or has the pipe count of the first table line; the
\* first other line is recorded as one issue with both counts.
C9_ClosedSeparatorExempt ==
    pc = "reported" =>
        LET bad == {i \in TabIndexes :
                       /\ ~ClosedSeparator(SLines[i])
                       /\ Count(SLines[i], "|") # Count(SLines[FirstTab], "|")}
        IN  /\ report.table_valid = (bad = {})
            /\ IssuesOfKind("table_cols") =
                 IF bad = {} THEN <<>>
                 ELSE LET f == CHOOSE i \in bad : \A j \in bad : i <= j
                      IN  <<[kind     |-> "table_cols",
                             expected |-> Count(SLines[FirstTab], "|"),
                             got      |-> Count(SLines[f], "|")]>>

C9_Witness ==
    /\ pc = "reported"
    /\ ~report.table_valid
    /\ \E i \in TabIndexes :
        /\ ClosedSeparator(SLines[i])
        /\ Count(SLines[i], "|") # Count(SLines[FirstTab], "|")
    /\ Cardinality({i \in TabIndexes :
           /\ ~ClosedSeparator(SLines[i])
           /\ Count(SLines[i], "|") # Count(SLines[FirstTab], "|")}) >= 2

\* C10: table_count is the number of maximal runs of consecutive table
\* lines: the table lines that are the first line or follow a line that is
\* not a table line.
C10_TableRuns ==
    pc = "reported" =>
        report.table_count =
            Cardinality({i \in TabIndexes : i = 1 \/ ~IsTab(SLines[i - 1])})

C10_Witness ==
    /\ pc = "reported"
    /\ report.table_count >= 2
    /\ \E i \in TabIndexes : i > 1 /\ IsTab(SLines[i - 1])

\* the first line of the table (run of consecutive table lines) that table
\* line i belongs to
TableOf(i) ==
    CHOOSE s \in TabIndexes :
        /\ s <= i
        /\ s = 1 \/ ~IsTab(SLines[s - 1])
        /\ \A k \in s..i : IsTab(SLines[k])

Pipes(i) == Count(SLines[i], "|")

\* the document has two tables with lines of different pipe counts
DifferingTables ==
    \E i, j \in TabIndexes : TableOf(i) # TableOf(j) /\ Pipes(i) # Pipes(j)

\* C25 as stated: a document with two or more tables whose rows have
\* different pipe counts is always reported table_valid = false.
C25_DifferingTablesInvalid ==
    (pc = "reported" /\ DifferingTables) => ~report.table_valid

\* C25, amended: every table line is compared with the first table line of
\* the whole document, not of its own table, separator-shaped lines being
\* exempt: a document with two tables of different pipe counts is reported
\* table_valid = false exactly when some table line that is not
\* separator-shaped differs from the document's first table line.
C25_ComparedWithFirstLine ==
    (pc = "reported" /\ DifferingTables) =>
        report.table_valid =
            (\A i \in TabIndexes :
                Pipes(i) = Pipes(FirstTab) \/ ClosedSeparator(SLines[i]))

C25_Witness ==
    /\ pc = "reported"
    /\ DifferingTables
    /\ \A i, j \in TabIndexes : TableOf(i) = TableOf(j) => Pipes(i) = Pipes(j)
    /\ \A i \in TabIndexes : ~ClosedSeparator(SLines[i])
    /\ Cardinality({TableOf(i) : i \in TabIndexes}) >= 2
    /\ ~report.table_valid

\* the '$$' delimiters of the document, read left to right: each maximal
\* run of k '$' characters holds k div 2 of them
DelimiterCount ==
    LET starts == {i \in 1..Len(silver_md) :
                      silver_md[i] = "$" /\ (i = 1 \/ silver_md[i - 1] # "$")}
        run(i) == CHOOSE k \in 1..Len(silver_md) :
                      /\ \A m \in i..(i + k - 1) : silver_md[m] = "$"
                      /\ (i + k > Len(silver_md) \/ silver_md[i + k] # "$")
        pairsUpTo[i \in 0..Len(silver_md)] ==
            IF i = 0 THEN 0
            ELSE pairsUpTo[i - 1] + (IF i \in starts THEN run(i) \div 2 ELSE 0)
    IN  pairsUpTo[Len(silver_md)]

\* C11: with n the number of '$$' delimiters, equation_count = n div 2,
\* equation_valid = (n is even), and an equation issue is recorded exactly
\* when n is odd.
C11_EquationPairs ==
    pc = "reported" =>
        /\ report.equation_count = DelimiterCount \div 2
        /\ report.equation_valid = (DelimiterCount % 2 = 0)
        /\ Len(IssuesOfKind("equation_unpaired")) = (IF DelimiterCount % 2 = 1 THEN 1 ELSE 0)

C11_Witness ==
    /\ pc = "reported"
    /\ DelimiterCount = 3
    /\ report.equation_count = 1
    /\ ~report.equation_valid
    /\ \E i \in 1..(Len(silver_md) - 2) :
        silver_md[i] = "$" /\ silver_md[i + 1] = "$" /\ silver_md[i + 2] = "$"

\* C12: pass is true exactly when the three validity flags are all true, and
\* issues holds exactly one entry for each flag that is false: empty exactly
\* when pass is true.
C12_PassAndIssues ==
    pc = "reported" =>
        /\ report.pass =
             (report.heading_order_valid /\ report.table_valid /\ report.equation_valid)
        /\ Len(IssuesOfKind("heading_jump")) = (IF report.heading_order_valid THEN 0 ELSE 1)
        /\ Len(IssuesOfKind("table_cols")) = (IF report.table_valid THEN 0 ELSE 1)
        /\ Len(IssuesOfKind("equation_unpaired")) = (IF report.equation_valid THEN 0 ELSE 1)
        /\ Len(report.issues) =
             Len(IssuesOfKind("heading_jump")) + Len(IssuesOfKind("table_cols"))
                 + Len(IssuesOfKind("equation_unpaired"))
        /\ (report.issues = <<>>) = report.pass

C12_Witness ==
    /\ pc = "reported"
    /\ ~report.heading_order_valid
    /\ ~report.table_valid
    /\ ~report.equation_valid
    /\ Len(report.issues) = 3

--------------------------------------------------------------------------
(* Properties of evaluate_semantic *)

\* evaluate_semantic has returned
SemanticReturned == semantic # NoReport

\* every score of the returned report is 0 and pass is false
ZeroScored ==
    /\ \A k \in {"structure_score", "completeness_score", "coherence_score",
                  "overall_score"} :
           k \in DOMAIN semantic /\ semantic[k] = JInt(0)
    /\ semantic.pass = JBool(FALSE)

\* the issues of the returned report
SemanticIssues == [i \in 1..Len(semantic.issues.list) |-> semantic.issues.list[i].str]

\* C13: without a credential evaluate_semantic returns a report whose scores
\* are all 0, whose pass is false and whose only issue names the missing
\* UPSTAGE_API_KEY, and the language model is never called.
C13_NoCredential ==
    ~api_key =>
        /\ llm_calls = 0
        /\ pc \notin {"sem_invoke", "sem_parse"}
        /\ SemanticReturned =>
               /\ ZeroScored
               /\ SemanticIssues = <<"UPSTAGE_API_KEY not configured">>

C13_Witness ==
    /\ pc = "sem_done"
    /\ ~api_key
    /\ silver_md # <<>>
    /\ llm_calls = 0
    /\ semantic.overall_score = JInt(0)
    /\ semantic.pass = JBool(FALSE)
    /\ SemanticIssues = <<"UPSTAGE_API_KEY not configured">>

\* the overall_score of the returned report as a number, 0 when it is missing
ReportedScore == AsInt(DictGet(semantic, "overall_score", JInt(0)))

\* the language model answered with an object that has a "pass" of its own
ResponseCarriesPass(b) ==
    /\ ~response.raised
    /\ json_loads(response.content).ok
    /\ json_loads(response.content).val.t = "dict"
    /\ "pass" \in DOMAIN json_loads(response.content).val.dict
    /\ json_loads(response.content).val.dict["pass"] = JBool(b)

\* C14: in every report evaluate_semantic returns, pass is true exactly when
\* the report's overall_score (0 when missing) is at least 70, whatever
\* "pass" the response of the language model carried.
C14_PassIffScore ==
    SemanticReturned => semantic.pass = JBool(ReportedScore >= 70)

C14_Witness ==
    /\ pc = "sem_done"
    /\ ResponseCarriesPass(TRUE)
    /\ ReportedScore = 10
    /\ semantic.pass = JBool(FALSE)

\* a response text without the whitespace and the code fence around it: the
\* opening fence with its language word, and the closing fence
Unfenced(content) ==
    LET s == Strip(content)
    IN  IF s = <<>> \/ s[1] # Fence THEN s
        ELSE LET a == Tail(s)
                 b == IF a # <<>> /\ a[1] = "json" THEN Tail(a) ELSE a
             IN  IF b # <<>> /\ b[Len(b)] = Fence
                 THEN SubSeq(b, 1, Len(b) - 1)
                 ELSE b

\* the text is a JSON object
IsJsonObject(text) == json_loads(text).ok /\ json_loads(text).val.t = "dict"

\* the returned report is the object the response carried, pass aside
Accepted(text) ==
    \A k \in DOMAIN json_loads(text).val.dict \ {"pass"} :
        k \in DOMAIN semantic /\ semantic[k] = json_loads(text).val.dict[k]

\* C15: a response that, with the code fence around it removed, is not a
\* JSON object gives a zero-scored report with pass false and the parse
\* failure issue; a fenced response whose inner text is a JSON object is
\* accepted.
C15_UnparseableIsParseFailure ==
    (SemanticReturned /\ api_key /\ ~response.raised) =>
        IF IsJsonObject(Unfenced(response.content))
        THEN Accepted(Unfenced(response.content))
        ELSE ZeroScored /\ SemanticIssues = <<ParseFailureIssue>>

\* the text t occurs in the text s
Contains(s, t) ==
    \E i \in 1..(Len(s) + 1) :
        /\ i + Len(t) - 1 <= Len(s)
        /\ SubSeq(s, i, i + Len(t) - 1) = t

\* curate has returned a report with all of its parts
CurateComplete ==
    /\ curation # NoReport
    /\ curation.text_quality = text_quality
    /\ curation.structure_quality = report
    /\ curation.semantic_quality = semantic
    /\ curation.pass \in BOOLEAN
    /\ curation.overall_score \in Int
    /\ curation.recommendation \in {AllChecksPassed, SemanticReviewRecommended, NeedsRevision}

\* C16 as stated: whatever error llm.invoke raises, evaluate_semantic returns
\* a zero-scored report with pass false whose issue contains the error text.
C16_ErrorTextReported ==
    (response.raised /\ SemanticReturned) =>
        /\ ZeroScored
        /\ Len(SemanticIssues) = 1
        /\ Contains(SemanticIssues[1], response.error)

\* C16, amended: an error raised by llm.invoke never leaves
\* evaluate_semantic; the report is zero-scored with pass false, its issue
\* holds the error text unless the error is a JSON decode error, which is
\* reported as a parse failure with raw_response None; and curate goes on to
\* return a complete report.
C16_FailureContained ==
    response.raised =>
        /\ pc # "raised"
        /\ SemanticReturned =>
               /\ ZeroScored
               /\ IF response.exception = "JSONDecodeError"
                  THEN /\ SemanticIssues = <<ParseFailureIssue>>
                       /\ semantic.raw_response = JNull
                  ELSE /\ Len(SemanticIssues) = 1
                       /\ Contains(SemanticIssues[1], response.error)
        /\ pc = "curate_done" => CurateComplete /\ ~curation.pass

C16_Witness ==
    /\ pc = "curate_done"
    /\ response.raised
    /\ response.error = "connection refused"
    /\ CurateComplete
    /\ curation.semantic_quality.overall_score = JInt(0)
    /\ Contains(SemanticIssues[1], "connection refused")
    /\ report.pass
    /\ curation.recommendation = SemanticReviewRecommended

--------------------------------------------------------------------------
(* Properties of curate *)

\* curate has returned
CurateReturned == curation # NoReport

\* semantic overall score plus 10 for each of structure and text that passes
ScoreSum ==
    ReportedScore + (IF report.pass THEN 10 ELSE 0)
                  + (IF text_quality.pass THEN 10 ELSE 0)

\* C17: the overall_score curate returns is min(100, semantic overall score
\* + 10 if the structural report passes + 10 if the text-quality report
\* passes).
C17_OverallScore ==
    CurateReturned =>
        curation.overall_score = (IF ScoreSum > 100 THEN 100 ELSE ScoreSum)

C17_Witness ==
    /\ pc = "curate_done"
    /\ ReportedScore = 85
    /\ report.pass
    /\ text_quality.pass
    /\ curation.overall_score = 100

\* C18: the overall_score curate returns lies within 0..100 whatever overall
\* score the semantic report carries.
C18_ScoreInRange ==
    CurateReturned => curation.overall_score \in 0..100

\* C19: curate's pass is the conjunction of the three sub-pass flags, and the
\* recommendation is "all checks passed" exactly when pass is true,
\* "semantic review recommended" exactly when structure and text pass and
\* semantic does not, and "needs revision" in every other case.
C19_Verdict ==
    CurateReturned =>
        LET t == text_quality.pass
            s == report.pass
            m == semantic.pass.bool
        IN  /\ curation.pass = (t /\ s /\ m)
            /\ (curation.recommendation = AllChecksPassed) = curation.pass
            /\ (curation.recommendation = SemanticReviewRecommended) = (s /\ t /\ ~m)
            /\ (curation.recommendation = NeedsRevision) = ~(s /\ t)

C19_Witness ==
    /\ pc = "curate_done"
    /\ report.pass
    /\ ~text_quality.pass
    /\ semantic.pass.bool
    /\ ~curation.pass
    /\ curation.recommendation = NeedsRevision

\* C27: whenever curate reports pass = true its overall_score is at least
\* 90; an overall_score below 90 always comes with pass = false.
C27_PassMeansHighScore ==
    CurateReturned => (curation.pass => curation.overall_score >= 90)

C27_Witness ==
    /\ pc = "curate_done"
    /\ curation.pass
    /\ ReportedScore = 70
    /\ curation.overall_score = 90

--------------------------------------------------------------------------
(* Properties of evaluate_text_quality *)

\* evaluate_text_quality has returned a report
TextQualityReturned == text_quality # NoReport /\ ~text_quality.raised

\* the words of the document, counted by where they end
Words ==
    { i \in 1..Len(silver_md) :
        /\ silver_md[i] \notin {" ", "\t", "\n"}
        /\ i = Len(silver_md) \/ silver_md[i + 1] \in {" ", "\t", "\n"} }

\* C20 as stated: the report always has the two counts; with a reference
\* text supplied pass is true exactly when the character error rate is below
\* 0.15, and without one pass is true.
C20_PassIffLowCer ==
    TextQualityReturned =>
        /\ text_quality.char_count = Len(silver_md)
        /\ text_quality.word_count = Cardinality(Words)
        /\ IF original_text.given
           THEN /\ "cer" \in DOMAIN text_quality
                /\ text_quality.pass =
                       (text_quality.cer.num * 100 < 15 * text_quality.cer.den)
           ELSE text_quality.pass

\* C20, amended: every report evaluate_text_quality returns has the two
\* counts; when a non-empty reference is supplied and the comparison package
\* is installed, the report has the rates it returned and pass is true
\* exactly when the character error rate is strictly below 0.15; in every
\* other case (no reference, an empty reference, package not installed) no
\* rate is reported and pass is true.
C20_TextQuality ==
    TextQualityReturned =>
        /\ text_quality.char_count = Len(silver_md)
        /\ text_quality.word_count = Cardinality(Words)
        /\ IF original_text.given /\ original_text.text # <<>> /\ jiwer.installed
           THEN /\ "cer" \in DOMAIN text_quality
                /\ text_quality.cer = jiwer.cer
                /\ text_quality.wer = jiwer.wer
                /\ text_quality.pass =
                       (text_quality.cer.num * 100 < 15 * text_quality.cer.den)
           ELSE /\ DOMAIN text_quality \cap {"cer", "wer"} = {}
                /\ text_quality.pass

C20_Witness ==
    /\ pc = "text_done"
    /\ original_text = Some(Chars("a b"))
    /\ Cardinality(Words) = 2
    /\ jiwer.installed
    /\ text_quality.cer = Rate(3, 20)
    /\ ~text_quality.pass

--------------------------------------------------------------------------
(* Properties of parse_pdf *)

\* parse_pdf has raised exception
PdfFailedWith(exception) ==
    pdf_result # NoResult /\ pdf_result.raised /\ pdf_result.exception = exception

\* requests.post returned a response
Answered == http.sent /\ ~http.raised

\* C21: parse_pdf checks in order and stops at the first failure: without a
\* key it raises the configuration error before looking at the file or
\* sending a request; with the file missing it raises the input error before
\* sending a request; a response other than 200 raises the external-call
\* error with the status code and the response text in its message; and
\* markdown is returned only after a 200 response.
C21_CheckOrder ==
    /\ ~api_key =>
           /\ file_looks = 0 /\ http_requests = 0
           /\ pdf_result # NoResult =>
                  PdfFailedWith("ValueError") /\ pdf_result.message = MissingKeyMessage
    /\ (api_key /\ pdf_file = "missing") =>
           /\ http_requests = 0
           /\ pdf_result # NoResult =>
                  PdfFailedWith("ValueError") /\ pdf_result.message = MissingFileMessage
    /\ (Answered /\ http.status # 200 /\ pdf_result # NoResult) =>
           /\ PdfFailedWith("RuntimeError")
           /\ Contains(pdf_result.message, ToString(http.status))
           /\ Contains(pdf_result.message, http.text)
    /\ (pdf_result # NoResult /\ ~pdf_result.raised) =>
           /\ api_key /\ pdf_file = "file"
           /\ http_requests = 1
           /\ Answered /\ http.status = 200

C21_Witness ==
    /\ pc = "pdf_raised"
    /\ http_requests = 1
    /\ Answered /\ http.status = 401 /\ http.text = "Unauthorized"
    /\ PdfFailedWith("RuntimeError")
    /\ Contains(pdf_result.message, "401 - Unauthorized")

--------------------------------------------------------------------------
(* Properties across the evaluators *)

\* C22: refine_headings, evaluate_structure and evaluate_text_quality never
\* raise: whatever the document, the reference text and the behaviour of
\* the text-comparison package, the call ends with a result.
C22_EvaluatorsNeverRaise ==
    /\ pc # "raised"
    /\ text_quality # NoReport => ~text_quality.raised

\* the returned report has key k with an integer in lo..hi
ScoreWithin(k, lo, hi) ==
    /\ k \in DOMAIN semantic
    /\ semantic[k].t = "int"
    /\ semantic[k].int \in lo..hi

\* C23: every report evaluate_semantic returns has structure_score,
\* completeness_score and coherence_score in 0..10, overall_score in 0..100,
\* a list of issues, a recommendation and a pass flag, whatever fields and
\* values the parsed response had.
C23_ReportValidated ==
    SemanticReturned =>
        /\ ScoreWithin("structure_score", 0, 10)
        /\ ScoreWithin("completeness_score", 0, 10)
        /\ ScoreWithin("coherence_score", 0, 10)
        /\ ScoreWithin("overall_score", 0, 100)
        /\ "issues" \in DOMAIN semantic /\ semantic.issues.t = "list"
        /\ "recommendation" \in DOMAIN semantic /\ semantic.recommendation.t = "str"
        /\ "pass" \in DOMAIN semantic /\ semantic.pass.t = "bool"

\* evaluate_semantic has built its prompt
PromptBuilt == api_key /\ (pc \in {"sem_invoke", "sem_parse"} \/ SemanticReturned)

\* the first n characters of the document
FirstChars(n) == [i \in 1..(IF n < Len(silver_md) THEN n ELSE Len(silver_md)) |-> silver_md[i]]

\* C24: the document text in the prompt is the first max_chars characters of
\* the input, followed by the truncation notice exactly when the input is
\* longer than max_chars; an input of exactly max_chars characters is sent
\* whole, without the notice (max_chars not negative).
C24_Truncation ==
    (PromptBuilt /\ max_chars >= 0) =>
        truncated_md = IF Len(silver_md) > max_chars
                       THEN FirstChars(max_chars) \o TruncationNotice
                       ELSE silver_md

C24_Witness ==
    /\ pc = "sem_invoke"
    /\ Len(silver_md) = max_chars
    /\ Len(silver_md) >= 2
    /\ truncated_md = silver_md

\* a caller whose call has ended, by a return or by an exception
Ended(c) == frames[c].at \in {"returned", "raised"}

ReturnedFrom(c, fn) == frames[c].fn = fn /\ frames[c].at = "returned"

SameDocument(a, b) == frames[a].md = frames[b].md

\* the same document, the same reference, and the same answer of the
\* text-comparison package
SameTextInputs(a, b) ==
    /\ SameDocument(a, b)
    /\ frames[a].original = frames[b].original
    /\ frames[a].jiwer = frames[b].jiwer

SameResponse(a, b) == frames[a].response = frames[b].response

\* two calls of one function with the same arguments and the same answers
\* of the collaborators end the same way, whatever each caller called
\* before and however their steps were interleaved
SameCallSameResult ==
    \A a, b \in Callers :
        (/\ Ended(a) /\ Ended(b)
         /\ frames[a].fn = frames[b].fn
         /\ SameTextInputs(a, b)
         /\ SameResponse(a, b))
        => /\ frames[a].at = frames[b].at
           /\ frames[a].result = frames[b].result

\* inside curate a sub-report depends on the inputs of its own evaluator
\* only: the structure report on the document, the text report on document,
\* reference and package answer, the semantic report on the model's answer
EvaluatorsIndependent ==
    \A a, b \in Callers :
        (ReturnedFrom(a, "curate") /\ ReturnedFrom(b, "curate")) =>
            /\ SameDocument(a, b) =>
                   frames[a].result.structure_quality =
                       frames[b].result.structure_quality
            /\ SameTextInputs(a, b) =>
                   frames[a].result.text_quality = frames[b].result.text_quality
            /\ SameResponse(a, b) =>
                   frames[a].result.semantic_quality =
                       frames[b].result.semantic_quality

\* an evaluator returns inside curate what it returns when called directly
SameAloneAndInCurate ==
    \A a, b \in Callers :
        /\ (/\ ReturnedFrom(a, "evaluate_structure")
            /\ ReturnedFrom(b, "curate")
            /\ SameDocument(a, b))
           => frames[a].result = frames[b].result.structure_quality
        /\ (/\ ReturnedFrom(a, "evaluate_text_quality")
            /\ ReturnedFrom(b, "curate")
            /\ SameTextInputs(a, b))
           => frames[a].result = frames[b].result.text_quality

\* C26: no state is carried between calls.  What refine_headings,
\* evaluate_structure and evaluate_text_quality return for a document is the
\* same whatever calls came before and whatever runs alongside: two callers
\* whose steps interleave, each making one call after another, get equal
\* results for equal arguments; refine_headings starts every call with the
\* title flag false, so a call that follows another returns what a first
\* call returns; and inside curate no sub-report depends on what another
\* evaluator returned.
C26_Stateless ==
    /\ pc = "done" => result = refine_headings(markdown)
    /\ pc = "loop" => title_found = (\E i \in 1..Len(levels) : levels[i] = 1)
    /\ SameCallSameResult
    /\ EvaluatorsIndependent
    /\ SameAloneAndInCurate

\* a second call of refine_headings, made after another call and alongside
\* the other caller's first, returned what that first call returned for the
\* same document, whose first heading became the title
C26_Witness ==
    /\ ReturnedFrom(1, "refine_headings")
    /\ ReturnedFrom(2, "refine_headings")
    /\ frames[1].calls = 2
    /\ frames[2].calls = 1
    /\ SameDocument(1, 2)
    /\ frames[1].title_found
    /\ frames[1].result.value # frames[1].md
    /\ frames[1].result = frames[2].result

--------------------------------------------------------------------------
(* Properties of the job store *)

IsCompleted(job) == job.status = "completed"

IsFinished(job) == job.status \in {"completed", "failed"}

\* C28: once a job is COMPLETED its status never changes while the job
\* exists, under every interleaving of POST /process/{job_id},
\* POST /process-all and the background tasks they start.
C28_CompletedIsFinal ==
    [][\A j \in DOMAIN jobs \cap DOMAIN jobs' :
          IsCompleted(jobs[j]) => IsCompleted(jobs'[j])]_vars

Range(s) == { s[i] : i \in 1..Len(s) }

\* task t is the background task of a POST /process-all that found job j
\* PENDING
BatchHolds(t, j) ==
    /\ t <= Len(tasks)
    /\ tasks[t].kind = "batch"
    /\ j \in Range(tasks[t].job_ids)

\* C29: every job that was PENDING when POST /process-all was called, and
\* that still exists, eventually reaches COMPLETED or FAILED, whatever
\* process, delete and clear requests are interleaved with the background
\* task.
C29_BatchFinishesEveryJob ==
    \A t \in 1..MaxTasks, j \in JobIds :
        BatchHolds(t, j) ~> (j \notin DOMAIN jobs \/ IsFinished(jobs[j]))

\* what the fields of a job are when they agree with its status
FieldsAgree(job) ==
    /\ job.status = "pending" =>
          /\ job.progress = 0
          /\ ~job.markdown.given
          /\ ~job.quality_score.given
          /\ ~job.error.given
    /\ job.status = "completed" =>
          /\ job.progress = 100
          /\ job.markdown.given
          /\ job.quality_score.given
          /\ job.completed_at
          /\ ~job.error.given
    /\ job.status = "failed" =>
          /\ job.error.given
          /\ job.progress = 0
          /\ ~job.markdown.given
          /\ ~job.quality_score.given

\* C30: in every reachable state of the job store each job's fields agree
\* with its status: a PENDING job has progress 0 and no markdown, score or
\* error; a COMPLETED job has progress 100, markdown, quality_score and
\* completed_at set and no error; a FAILED job has an error, progress 0 and
\* no markdown or quality_score.
C30_FieldsAgreeWithStatus == \A j \in DOMAIN jobs : FieldsAgree(jobs[j])

====
